---- MODULE Spec2Model ----
(***************************************************************************)
(* Model of the subject-relationship pipeline of the wafer.db tools:       *)
(*   packages/core/src/utils/clustering.ts   (DBSCAN, grouping, centroid)  *)
(*   find-subject-relationship tool          (resolution, cache, summary)  *)
(*                                                                         *)
(* Conventions.                                                            *)
(*  - Array positions are 1-based here (TLA+ sequences); the source is     *)
(*    0-based.  Cluster ids are the source's: -1 noise, 0, 1, ...          *)
(*  - Embedding coordinates and eps are fixed-point numbers in units of    *)
(*    1/10 (eps = 0.2 is 2, eps = 1.5 is 15, [0, 0.1] is <<0, 1>>).        *)
(*  - Strings that the code inspects (subject names) are sequences of      *)
(*    one-character strings.                                               *)
(***************************************************************************)
EXTENDS Integers, Sequences, FiniteSets, TLC

\* ------------------------------------------------------------------------
\* Bounds of the model
\* ------------------------------------------------------------------------
MaxPoints == 4
MaxRequests == 2
MaxRows == 7

\* ------------------------------------------------------------------------
\* Generic sequence helpers
\* ------------------------------------------------------------------------
Range(s) == {s[k] : k \in 1..Len(s)}

includes(s, x) == \E k \in 1..Len(s) : s[k] = x

RECURSIVE SeqsUpTo(_, _)
SeqsUpTo(S, n) ==
  IF n = 0 THEN {<<>>}
  ELSE LET shorter == SeqsUpTo(S, n - 1)
       IN shorter \cup {Append(s, x) : s \in {t \in shorter : Len(t) = n - 1}, x \in S}

\* ------------------------------------------------------------------------
\* clustering.ts
\* ------------------------------------------------------------------------
NOISE == -1

RECURSIVE SumSq(_, _, _)
SumSq(a, b, k) ==
  IF k > Len(a) THEN 0
  ELSE (a[k] - b[k]) * (a[k] - b[k]) + SumSq(a, b, k + 1)

\* euclideanDistance(a, b) <= eps.  The source compares Math.sqrt(sum) with
\* eps; sqrt(sum) <= eps holds exactly when eps >= 0 and sum <= eps * eps.
euclideanDistanceLeq(a, b, eps) == eps >= 0 /\ SumSq(a, b, 1) <= eps * eps

\* euclideanDistance throws when the two lengths differ.  getNeighbors(.., 0, ..)
\* is always the first call of dbscanClustering and compares embeddings[0]
\* with every other embedding, so the function throws exactly when some
\* embedding has another length than the first one.
DimensionMismatch(embeddings) ==
  \E k \in 1..Len(embeddings) : Len(embeddings[k]) # Len(embeddings[1])

RECURSIVE NeighborsFrom(_, _, _, _)
NeighborsFrom(embeddings, pointIdx, eps, i) ==
  IF i > Len(embeddings) THEN <<>>
  ELSE IF i # pointIdx /\ euclideanDistanceLeq(embeddings[pointIdx], embeddings[i], eps)
       THEN <<i>> \o NeighborsFrom(embeddings, pointIdx, eps, i + 1)
       ELSE NeighborsFrom(embeddings, pointIdx, eps, i + 1)

getNeighbors(embeddings, pointIdx, eps) == NeighborsFrom(embeddings, pointIdx, eps, 1)

\* every neighbour pushed, queued already or not
pushNew_all(neighborQueue, neighborNeighbors, k) ==
  neighborQueue \o SubSeq(neighborNeighbors, k, Len(neighborNeighbors))

\* for (const newNeighbor of neighborNeighbors)
\*   if (!neighborQueue.includes(newNeighbor)) neighborQueue.push(newNeighbor)
RECURSIVE pushNew(_, _, _)
pushNew(neighborQueue, neighborNeighbors, k) ==
  IF k > Len(neighborNeighbors) THEN neighborQueue
  ELSE IF includes(neighborQueue, neighborNeighbors[k])
       THEN pushNew(neighborQueue, neighborNeighbors, k + 1)
       ELSE pushNew(Append(neighborQueue, neighborNeighbors[k]), neighborNeighbors, k + 1)

\* the neighbours of a dequeued point are not queued
expandStep_noPush(embeddings, eps, minPoints, clusters, neighborQueue, j, clusterId) ==
  LET neighborIdx == neighborQueue[j]
  IN IF clusters[neighborIdx] = NOISE
     THEN [clusters |-> [clusters EXCEPT ![neighborIdx] = clusterId],
           neighborQueue |-> neighborQueue]
     ELSE [clusters |-> clusters, neighborQueue |-> neighborQueue]

\* only a point with at least minPoints neighbours takes the label
expandStep_coreOnly(embeddings, eps, minPoints, clusters, neighborQueue, j, clusterId) ==
  LET neighborIdx == neighborQueue[j]
      neighborNeighbors == getNeighbors(embeddings, neighborIdx, eps)
  IN IF clusters[neighborIdx] = NOISE /\ Len(neighborNeighbors) >= minPoints
     THEN [clusters |-> [clusters EXCEPT ![neighborIdx] = clusterId],
           neighborQueue |-> pushNew(neighborQueue, neighborNeighbors, 1)]
     ELSE [clusters |-> clusters, neighborQueue |-> neighborQueue]

\* one iteration of the inner loop, for position j of the queue:
\* the new labels and the new queue
expandStep(embeddings, eps, minPoints, clusters, neighborQueue, j, clusterId) ==
  LET neighborIdx == neighborQueue[j]
      neighborNeighbors == getNeighbors(embeddings, neighborIdx, eps)
  IN IF clusters[neighborIdx] = NOISE
     THEN [clusters |-> [clusters EXCEPT ![neighborIdx] = clusterId],
           neighborQueue |-> IF Len(neighborNeighbors) >= minPoints
                             THEN pushNew(neighborQueue, neighborNeighbors, 1)
                             ELSE neighborQueue]
     ELSE [clusters |-> clusters, neighborQueue |-> neighborQueue]

RECURSIVE expandCluster(_, _, _, _, _, _, _)
expandCluster(embeddings, eps, minPoints, clusters, neighborQueue, j, clusterId) ==
  IF j > Len(neighborQueue) THEN clusters
  ELSE LET s == expandStep(embeddings, eps, minPoints, clusters, neighborQueue, j, clusterId)
       IN expandCluster(embeddings, eps, minPoints, s.clusters, s.neighborQueue, j + 1, clusterId)

\* every unprocessed point seeds a cluster
seedsCluster_always(embeddings, i, eps, minPoints) == i \in 1..Len(embeddings)

\* a point seeds a cluster when it has at least minPoints neighbours,
\* the point itself not counted (getNeighbors skips pointIdx)
seedsCluster(embeddings, i, eps, minPoints) ==
  ~(Len(getNeighbors(embeddings, i, eps)) < minPoints)

RECURSIVE dbscanFrom(_, _, _, _, _, _)
dbscanFrom(embeddings, eps, minPoints, clusters, clusterId, i) ==
  IF i > Len(embeddings) THEN clusters
  ELSE IF clusters[i] # NOISE
       THEN dbscanFrom(embeddings, eps, minPoints, clusters, clusterId, i + 1)
  ELSE IF ~seedsCluster(embeddings, i, eps, minPoints)
       THEN dbscanFrom(embeddings, eps, minPoints, clusters, clusterId, i + 1)
  ELSE dbscanFrom(embeddings, eps, minPoints,
                  expandCluster(embeddings, eps, minPoints,
                                [clusters EXCEPT ![i] = clusterId],
                                getNeighbors(embeddings, i, eps), 1, clusterId),
                  clusterId + 1, i + 1)

\* dbscanClustering(embeddings, eps, minPoints): the labels it returns when it
\* does not throw, that is when ~DimensionMismatch(embeddings)
dbscanClustering(embeddings, eps, minPoints) ==
  dbscanFrom(embeddings, eps, minPoints, [k \in 1..Len(embeddings) |-> NOISE], 0, 1)

\* groupByCluster(items, clusterIds) as the list of [clusterId, items] entries
\* of the Map in insertion order: a cluster id is inserted when its first item
\* is met, the items of a cluster keep the order of the input
RECURSIVE groupFrom(_, _, _, _)
groupFrom(items, clusterIds, i, clusters) ==
  IF i > Len(items) THEN clusters
  ELSE LET clusterId == clusterIds[i]
       IN IF clusterId = NOISE THEN groupFrom(items, clusterIds, i + 1, clusters)
          ELSE IF \E k \in 1..Len(clusters) : clusters[k].clusterId = clusterId
          THEN groupFrom(items, clusterIds, i + 1,
                 [k \in 1..Len(clusters) |->
                    IF clusters[k].clusterId = clusterId
                    THEN [clusters[k] EXCEPT !.items = Append(@, items[i])]
                    ELSE clusters[k]])
          ELSE groupFrom(items, clusterIds, i + 1,
                 Append(clusters, [clusterId |-> clusterId, items |-> <<items[i]>>]))

groupByCluster(items, clusterIds) == groupFrom(items, clusterIds, 1, <<>>)

\* calculateClusterCentroid(embeddings): the element-wise mean, kept as the
\* pair (element-wise sum, count) so that no division is needed; null for no
\* embeddings
NoCentroid == "null"

RECURSIVE sumCoord(_, _, _)
sumCoord(embeddings, d, k) ==
  IF k > Len(embeddings) THEN 0 ELSE embeddings[k][d] + sumCoord(embeddings, d, k + 1)

calculateClusterCentroid(embeddings) ==
  IF Len(embeddings) = 0 THEN NoCentroid
  ELSE [sum |-> [d \in 1..Len(embeddings[1]) |-> sumCoord(embeddings, d, 1)],
        count |-> Len(embeddings)]

\* ------------------------------------------------------------------------
\* Strings (JavaScript and SQLite text functions the tool uses)
\* ------------------------------------------------------------------------
UpperCase == <<"A","B","C","D","E","F","G","H","I","J","K","L","M",
               "N","O","P","Q","R","S","T","U","V","W","X","Y","Z">>
LowerCase == <<"a","b","c","d","e","f","g","h","i","j","k","l","m",
               "n","o","p","q","r","s","t","u","v","w","x","y","z">>

lowerChar(c) ==
  IF \E k \in 1..26 : UpperCase[k] = c
  THEN LowerCase[CHOOSE k \in 1..26 : UpperCase[k] = c]
  ELSE c

\* String.prototype.toLowerCase / SQL LOWER (ASCII letters)
toLowerCase(str) == [k \in 1..Len(str) |-> lowerChar(str[k])]

RECURSIVE trimStart(_)
trimStart(str) ==
  IF Len(str) > 0 /\ str[1] = " " THEN trimStart(Tail(str)) ELSE str

RECURSIVE trimEnd(_)
trimEnd(str) ==
  IF Len(str) > 0 /\ str[Len(str)] = " " THEN trimEnd(SubSeq(str, 1, Len(str) - 1)) ELSE str

\* String.prototype.trim
trim(str) == trimEnd(trimStart(str))

\* str.split(' ')[0]: the text before the first space
RECURSIVE firstToken(_)
firstToken(str) ==
  IF Len(str) = 0 \/ str[1] = " " THEN <<>>
  ELSE <<str[1]>> \o firstToken(Tail(str))

\* SQLite: text LIKE pattern, with % (any run of characters), _ (any one
\* character) and case-insensitive comparison of ASCII letters
RECURSIVE like(_, _)
like(text, pattern) ==
  IF Len(pattern) = 0 THEN Len(text) = 0
  ELSE IF pattern[1] = "%"
       THEN like(text, Tail(pattern)) \/ (Len(text) > 0 /\ like(Tail(text), pattern))
  ELSE IF Len(text) = 0 THEN FALSE
  ELSE IF pattern[1] = "_" THEN like(Tail(text), Tail(pattern))
  ELSE lowerChar(pattern[1]) = lowerChar(text[1]) /\ like(Tail(text), Tail(pattern))

\* `%${name}%`
containsPattern(name) == <<"%">> \o name \o <<"%">>

\* SQLite: a = b COLLATE NOCASE
equalsNoCase(a, b) == toLowerCase(a) = toLowerCase(b)

\* ------------------------------------------------------------------------
\* The subjects table: exact and fuzzy lookup
\* ------------------------------------------------------------------------
\* "no row" of db.get and SQL NULL of an integer column
NoRow == 0
\* SQL NULL / JavaScript null of a text value
Null == "<null>"

\* the comparison made with the first word of the name only
exactQuery_firstToken(subjectsTable, name) ==
  LET hits == {row \in subjectsTable : equalsNoCase(row.subject, firstToken(name))}
  IN IF hits = {} THEN {NoRow} ELSE {row.id : row \in hits}

\* SELECT id, subject FROM subjects WHERE subject = ? COLLATE NOCASE
\* db.get delivers the first row; no ORDER BY: any matching row can be first
exactQuery(subjectsTable, name) ==
  LET hits == {row \in subjectsTable : equalsNoCase(row.subject, name)}
  IN IF hits = {} THEN {NoRow} ELSE {row.id : row \in hits}

\* CASE WHEN subject LIKE ?1 THEN 1 WHEN subject LIKE ?2 THEN 2 ELSE 3 END
match_priority(subject, patternExact, patternPartial) ==
  IF like(subject, patternExact) THEN 1
  ELSE IF like(subject, patternPartial) THEN 2
  ELSE 3

\* the fuzzy query: WHERE subject LIKE ?1 OR subject LIKE ?2
\* ORDER BY match_priority, LENGTH(subject); db.get delivers the first row,
\* rows equal in both sort keys can come in any order
fuzzyQuery(subjectsTable, name) ==
  LET patternExact == containsPattern(name)
      patternPartial == containsPattern(firstToken(name))
      hits == {row \in subjectsTable :
                 like(row.subject, patternExact) \/ like(row.subject, patternPartial)}
      before(a, b) ==
        LET pa == match_priority(a.subject, patternExact, patternPartial)
            pb == match_priority(b.subject, patternExact, patternPartial)
        IN pa < pb \/ (pa = pb /\ Len(a.subject) < Len(b.subject))
      first == {row \in hits : \A other \in hits : ~before(other, row)}
  IN IF hits = {} THEN {NoRow} ELSE {row.id : row \in first}

\* validateToolParams of find_subject_relationship: the error text or Null
\* (the schema check of the parameter types is not modelled: both are strings)
validateToolParams(subject_1, subject_2) ==
  IF trim(subject_1) = <<>> THEN "subject_1 cannot be empty"
  ELSE IF trim(subject_2) = <<>> THEN "subject_2 cannot be empty"
  ELSE IF toLowerCase(trim(subject_1)) = toLowerCase(trim(subject_2))
       THEN "subject_1 and subject_2 must be different"
  ELSE Null

\* ------------------------------------------------------------------------
\* The evidence tables and dbscanClusterSubjectEmbeddings
\* ------------------------------------------------------------------------
\* a source_groups.vector column value: SQL NULL, the JSON text of a number
\* array (kept decoded in value), or text that is not JSON
NullVector == [kind |-> "null", value |-> <<>>]
MalformedVector == [kind |-> "malformed", value |-> <<>>]
JsonVector(v) == [kind |-> "json", value |-> v]

RECURSIVE sortById(_)
sortById(rows) ==
  IF rows = {} THEN <<>>
  ELSE LET least == CHOOSE row \in rows : \A other \in rows : row.source_id <= other.source_id
       IN <<least>> \o sortById(rows \ {least})

\* the SELECT without its HAVING clause: a source linked to any of the names
sourceGroupRows_anySubject(db, lowered, wantCount) ==
  LET matched(src) ==
        {toLowerCase(sub.subject) : sub \in
           {row \in db.subjects : /\ <<src.id, row.id>> \in db.source_subjects
                                   /\ includes(lowered, toLowerCase(row.subject))}}
      groupOf(src) == CHOOSE g \in db.source_groups : g.id = src.group_id
      selected == {src \in db.sources :
                     /\ \E g \in db.source_groups : g.id = src.group_id
                     /\ groupOf(src).vector.kind # "null"
                     /\ matched(src) # {}}
  IN sortById({[source_id |-> src.id, source_text |-> src.source_text,
                group_id |-> src.group_id, vector |-> groupOf(src).vector] :
                 src \in selected})

\* the SELECT of dbscanClusterSubjectEmbeddings for the lowered names:
\*   sources JOIN source_groups JOIN source_subjects JOIN subjects
\*   WHERE LOWER(sub.subject) IN (names) AND g.vector IS NOT NULL
\*   GROUP BY s.id HAVING COUNT(DISTINCT LOWER(sub.subject)) = wantCount
\*   ORDER BY s.id
sourceGroupRows(db, lowered, wantCount) ==
  LET matched(src) ==
        {toLowerCase(sub.subject) : sub \in
           {row \in db.subjects : /\ <<src.id, row.id>> \in db.source_subjects
                                   /\ includes(lowered, toLowerCase(row.subject))}}
      groupOf(src) == CHOOSE g \in db.source_groups : g.id = src.group_id
      selected == {src \in db.sources :
                     /\ \E g \in db.source_groups : g.id = src.group_id
                     /\ groupOf(src).vector.kind # "null"
                     /\ matched(src) # {}
                     /\ Cardinality(matched(src)) = wantCount}
  IN sortById({[source_id |-> src.id, source_text |-> src.source_text,
                group_id |-> src.group_id, vector |-> groupOf(src).vector] :
                 src \in selected})

\* JSON.parse(row.vector) throws for text that is not JSON
parseFails(rows) == \E k \in 1..Len(rows) : rows[k].vector.kind = "malformed"

vectorsOf(rows) == [k \in 1..Len(rows) |-> rows[k].vector.value]

\* the try block over the fetched rows throws (and the promise is rejected
\* with "Failed to process clustering")
clusterRowsThrows(rows) ==
  Len(rows) > 0 /\ (parseFails(rows) \/ DimensionMismatch(vectorsOf(rows)))

\* the rows already fetched: parse, cluster, group, centroid; the list out of
\* [sources, centroid] entries when the try block does not throw
clusterRows(rows, eps, minPoints) ==
  IF Len(rows) = 0 THEN <<>>
  ELSE LET clusterIds == dbscanClustering(vectorsOf(rows), eps, minPoints)
           clusters == groupByCluster(rows, clusterIds)
       IN [k \in 1..Len(clusters) |->
             [clusterId |-> clusters[k].clusterId,
              sources |-> clusters[k].items,
              centroid |-> calculateClusterCentroid(vectorsOf(clusters[k].items))]]

\* ------------------------------------------------------------------------
\* generateRelationshipSummary: the names to cluster over, and the sample
\* ------------------------------------------------------------------------
mainUserId == 1
DefaultEps == 2
DefaultMinPoints == 2
SampleSize == 5

\* the ids passed on in the order the names were given
orderIds_asGiven(subject1Id, subject2Id) == <<subject1Id, subject2Id>>

\* const [firstId, secondId] = subject1Id < subject2Id ? [1, 2] : [2, 1]
orderIds(subject1Id, subject2Id) ==
  IF subject1Id < subject2Id THEN <<subject1Id, subject2Id>> ELSE <<subject2Id, subject1Id>>

clusterSubjects(firstId, secondId, subject1Name, subject2Name) ==
  IF firstId = mainUserId THEN <<subject2Name>>
  ELSE IF secondId = mainUserId THEN <<subject1Name>>
  ELSE <<subject1Name, subject2Name>>

Min(a, b) == IF a < b THEN a ELSE b

\* every source text of every cluster
RECURSIVE sampleSources_all(_, _)
sampleSources_all(clustersWithCentroids, k) ==
  IF k > Len(clustersWithCentroids) THEN <<>>
  ELSE LET clusterSources == clustersWithCentroids[k].sources
       IN [m \in 1..Len(clusterSources) |-> clusterSources[m].source_text]
            \o sampleSources_all(clustersWithCentroids, k + 1)

\* the first Math.min(5, length) source texts of every cluster, in order
RECURSIVE sampleSources(_, _)
sampleSources(clustersWithCentroids, k) ==
  IF k > Len(clustersWithCentroids) THEN <<>>
  ELSE LET clusterSources == clustersWithCentroids[k].sources
           samplesToTake == Min(SampleSize, Len(clusterSources))
       IN [m \in 1..samplesToTake |-> clusterSources[m].source_text]
            \o sampleSources(clustersWithCentroids, k + 1)

\* getResponseText(result) || 'Unable to generate relationship summary'
Placeholder == "Unable to generate relationship summary"
NoSharedSources == "No shared sources found"

truthy(text) == text # Null /\ text # ""

orElse(text, default) == IF truthy(text) THEN text ELSE default

\* ------------------------------------------------------------------------
\* State
\* ------------------------------------------------------------------------
VARIABLES
  dbscan,     \* the frame of one dbscanClustering call, run statement by statement
  db,         \* wafer.db: subjects, sources, source_groups, source_subjects,
              \* subject_relationships (the relationship cache)
  req,        \* per request slot: the position and the locals of one execute() call
  started,    \* number of execute() calls made so far
  writes,     \* history: the upserts applied so far, oldest first, each with
              \* the ids in the order the request resolved them
  lookup,     \* the frame of one findSubjectIdByName call (find_sources_by_subject)
  evidence,   \* the frame of one evidence clustering over rows already fetched,
              \* followed by the sampling of generateRelationshipSummary
  findSources, \* the frame of one findSourcesBySubject call, around its lookup
  query       \* the frame of one sqlite_query execute() call

vars == <<dbscan, db, req, started, writes, lookup, evidence, findSources, query>>

\* ------------------------------------------------------------------------
\* wafer.db
\* ------------------------------------------------------------------------
SamHall == <<"S","a","m"," ","H","a","l","l">>
Bob == <<"B","o","b">>
Ann == <<"A","n","n">>
Cy == <<"C","y">>

SubjectsTable ==
  {[id |-> 1, subject |-> SamHall], [id |-> 2, subject |-> Bob], [id |-> 3, subject |-> Ann],
   [id |-> 4, subject |-> Cy]}

\* sources 1, 2, 3 mention Bob and Ann, one group each; source 4 is a second
\* record of group 3 and mentions Bob only; source 5 mentions both, its group
\* has no vector; source 6 mentions Sam Hall and Bob; no source mentions Cy
SourcesTable ==
  {[id |-> 1, source_text |-> "t1", group_id |-> 1],
   [id |-> 2, source_text |-> "t2", group_id |-> 2],
   [id |-> 3, source_text |-> "t3", group_id |-> 3],
   [id |-> 4, source_text |-> "t4", group_id |-> 3],
   [id |-> 5, source_text |-> "t5", group_id |-> 4],
   [id |-> 6, source_text |-> "t6", group_id |-> 1]}

SourceSubjectsTable ==
  {<<1, 2>>, <<1, 3>>, <<2, 2>>, <<2, 3>>, <<3, 2>>, <<3, 3>>, <<4, 2>>,
   <<5, 2>>, <<5, 3>>, <<6, 1>>, <<6, 2>>}

SourceGroups(v1, v2, v3) ==
  {[id |-> 1, vector |-> v1], [id |-> 2, vector |-> v2], [id |-> 3, vector |-> v3],
   [id |-> 4, vector |-> NullVector]}

\* the embeddings of groups 1, 2, 3 in the databases the model starts from:
\* the end-to-end example of the specification ([0,0], [0,0.1], [9,9]),
\* three vectors within 0.2 of each other, and a group whose text is not JSON
GroupVectors ==
  {<<JsonVector(<<0, 0>>), JsonVector(<<0, 1>>), JsonVector(<<90, 90>>)>>,
   <<JsonVector(<<0, 0>>), JsonVector(<<0, 1>>), JsonVector(<<1, 0>>)>>,
   <<JsonVector(<<0, 0>>), MalformedVector, JsonVector(<<1, 0>>)>>}

\* orderCheck: whether subject_relationships carries the CHECK constraint
\* subject_1 < subject_2 that the comment in getOrCreateSubjectRelationship
\* mentions; the table definition is not part of the repository
Database(vs, orderCheck) ==
  [subjects |-> SubjectsTable, sources |-> SourcesTable,
   source_groups |-> SourceGroups(vs[1], vs[2], vs[3]),
   source_subjects |-> SourceSubjectsTable,
   subject_relationships |-> {}, orderCheck |-> orderCheck]

EmptyDb ==
  [subjects |-> {}, sources |-> {}, source_groups |-> {}, source_subjects |-> {},
   subject_relationships |-> {}, orderCheck |-> FALSE]

\* ------------------------------------------------------------------------
\* Requests
\* ------------------------------------------------------------------------
Slots == {1}

NoOutcome == [kind |-> "none", text |-> Null, names |-> <<>>]
NoPrompt == [sources |-> <<>>, subject1 |-> <<>>, subject2 |-> <<>>, mainUserInvolved |-> FALSE]

IdleReq ==
  [pc |-> "idle",
   subject1Name |-> <<>>, subject2Name |-> <<>>,
   subject1Row |-> NoRow, subject2Row |-> NoRow,
   pending |-> {}, fuzzy1 |-> NoRow, fuzzy2 |-> NoRow,
   subject1Id |-> NoRow, subject2Id |-> NoRow,
   firstId |-> NoRow, secondId |-> NoRow,
   cacheHit |-> FALSE,
   subjects |-> <<>>, rows |-> <<>>, clustersWithCentroids |-> <<>>,
   prompt |-> NoPrompt, relationshipSummary |-> Null,
   opened |-> 0, closed |-> 0,
   cacheBefore |-> {}, writesBefore |-> 0, trace |-> <<>>, outcome |-> NoOutcome]

\* ------------------------------------------------------------------------
\* dbscanClustering, statement by statement
\* ------------------------------------------------------------------------
PointSet == {<<0, 0>>, <<0, 1>>, <<1, 0>>, <<0, 10>>, <<90, 90>>, <<100, 100>>, <<0>>}
\* eps: negative, 0.2, 1.0 and 1.5; with 1.0 the points [0.1,0], [0,0], [0,1.0]
\* form a chain (the outer two are further apart than eps)
EpsSet == {-1, 2, 10, 15}
MinPointsSet == 0..3

DbscanIdle == [pc |-> "idle"]
LookupIdle == [pc |-> "idle"]
EvidenceIdle == [pc |-> "idle"]
FindSourcesIdle == [pc |-> "idle"]
QueryIdle == [pc |-> "idle"]

DbscanCall(embeddings, eps, minPoints) ==
  [pc |-> "outer", embeddings |-> embeddings, eps |-> eps, minPoints |-> minPoints,
   clusters |-> [k \in 1..Len(embeddings) |-> NOISE], clusterId |-> 0,
   i |-> 1, neighborQueue |-> <<>>, j |-> 1]

InitDbscan ==
  \E embeddings \in SeqsUpTo(PointSet, MaxPoints), eps \in EpsSet, minPoints \in MinPointsSet :
    /\ dbscan = DbscanCall(embeddings, eps, minPoints)
    /\ db = EmptyDb
    /\ req = [r \in Slots |-> IdleReq]
    /\ started = 0
    /\ writes = <<>>
    /\ lookup = LookupIdle
    /\ findSources = FindSourcesIdle
    /\ query = QueryIdle
    /\ evidence = EvidenceIdle

\* if (clusters[i] !== -1) continue
DbscanSkipProcessed ==
  /\ dbscan.pc = "outer"
  /\ dbscan.i <= Len(dbscan.embeddings)
  /\ dbscan.clusters[dbscan.i] # NOISE
  /\ dbscan' = [dbscan EXCEPT !.i = @ + 1]
  /\ UNCHANGED <<db, req, started, writes, lookup, evidence, findSources, query>>

\* getNeighbors throws (euclideanDistance: lengths differ)
DbscanThrow ==
  /\ dbscan.pc = "outer"
  /\ dbscan.i <= Len(dbscan.embeddings)
  /\ dbscan.clusters[dbscan.i] = NOISE
  /\ DimensionMismatch(dbscan.embeddings)
  /\ dbscan' = [dbscan EXCEPT !.pc = "thrown"]
  /\ UNCHANGED <<db, req, started, writes, lookup, evidence, findSources, query>>

\* if (neighbors.length < minPoints) continue
DbscanLeaveNoise ==
  /\ dbscan.pc = "outer"
  /\ dbscan.i <= Len(dbscan.embeddings)
  /\ dbscan.clusters[dbscan.i] = NOISE
  /\ ~DimensionMismatch(dbscan.embeddings)
  /\ ~seedsCluster(dbscan.embeddings, dbscan.i, dbscan.eps, dbscan.minPoints)
  /\ dbscan' = [dbscan EXCEPT !.i = @ + 1]
  /\ UNCHANGED <<db, req, started, writes, lookup, evidence, findSources, query>>

\* clusters[i] = clusterId; neighborQueue = [...neighbors]
DbscanStartCluster ==
  /\ dbscan.pc = "outer"
  /\ dbscan.i <= Len(dbscan.embeddings)
  /\ dbscan.clusters[dbscan.i] = NOISE
  /\ ~DimensionMismatch(dbscan.embeddings)
  /\ seedsCluster(dbscan.embeddings, dbscan.i, dbscan.eps, dbscan.minPoints)
  /\ dbscan' = [dbscan EXCEPT !.pc = "expand",
                              !.clusters[dbscan.i] = dbscan.clusterId,
                              !.neighborQueue = getNeighbors(dbscan.embeddings, dbscan.i, dbscan.eps),
                              !.j = 1]
  /\ UNCHANGED <<db, req, started, writes, lookup, evidence, findSources, query>>

\* one iteration of for (j = 0; j < neighborQueue.length; j++)
DbscanExpand ==
  /\ dbscan.pc = "expand"
  /\ dbscan.j <= Len(dbscan.neighborQueue)
  /\ LET s == expandStep(dbscan.embeddings, dbscan.eps, dbscan.minPoints, dbscan.clusters,
                         dbscan.neighborQueue, dbscan.j, dbscan.clusterId)
     IN dbscan' = [dbscan EXCEPT !.clusters = s.clusters,
                                 !.neighborQueue = s.neighborQueue,
                                 !.j = @ + 1]
  /\ UNCHANGED <<db, req, started, writes, lookup, evidence, findSources, query>>

\* the cluster id advanced by two
DbscanEndCluster_skipsId ==
  /\ dbscan.pc = "expand"
  /\ dbscan.j > Len(dbscan.neighborQueue)
  /\ dbscan' = [dbscan EXCEPT !.pc = "outer", !.clusterId = @ + 2, !.i = @ + 1,
                              !.neighborQueue = <<>>, !.j = 1]
  /\ UNCHANGED <<db, req, started, writes, lookup, evidence, findSources, query>>

\* clusterId++ and the next i
DbscanEndCluster ==
  /\ dbscan.pc = "expand"
  /\ dbscan.j > Len(dbscan.neighborQueue)
  /\ dbscan' = [dbscan EXCEPT !.pc = "outer", !.clusterId = @ + 1, !.i = @ + 1,
                              !.neighborQueue = <<>>, !.j = 1]
  /\ UNCHANGED <<db, req, started, writes, lookup, evidence, findSources, query>>

\* return clusters
DbscanReturn ==
  /\ dbscan.pc = "outer"
  /\ dbscan.i > Len(dbscan.embeddings)
  /\ dbscan' = [dbscan EXCEPT !.pc = "done"]
  /\ UNCHANGED <<db, req, started, writes, lookup, evidence, findSources, query>>

NextDbscan ==
  \/ DbscanSkipProcessed
  \/ DbscanThrow
  \/ DbscanLeaveNoise
  \/ DbscanStartCluster
  \/ DbscanExpand
  \/ DbscanEndCluster
  \/ DbscanReturn

SpecDbscan == InitDbscan /\ [][NextDbscan]_vars

\* the loops of dbscanClustering are sequential code: a call that can take a
\* step takes it
SpecDbscanLive == InitDbscan /\ [][NextDbscan]_vars /\ WF_vars(NextDbscan)

\* the statement-by-statement run returns what the operator computes
DbscanAgrees ==
  /\ dbscan.pc = "done" =>
       /\ ~DimensionMismatch(dbscan.embeddings)
       /\ dbscan.clusters = dbscanClustering(dbscan.embeddings, dbscan.eps, dbscan.minPoints)
  /\ dbscan.pc = "thrown" => DimensionMismatch(dbscan.embeddings)

\* ------------------------------------------------------------------------
\* find_subject_relationship: execute / getOrCreateSubjectRelationship
\* ------------------------------------------------------------------------
Bo == <<"B","o">>
Zed == <<"Z","e","d">>
BobSpaced == <<" ","b","o","b">>

InputNames == {SamHall, Bob, BobSpaced, Bo, Ann, Cy, Zed}

\* the summarizer: failure or timeout, or success with some text
GeminiResults ==
  {[ok |-> FALSE, text |-> ""]} \cup {[ok |-> TRUE, text |-> t] : t \in {"", "s1", "s2"}}

\* the catch swallowing the rejection: the cache query is issued all the same
failed_goesOn(r, text, names) ==
  [req[r] EXCEPT !.pc = "lookup", !.pending = {}, !.trace = Append(@, "lookup")]

\* a rejected promise reaches a catch that closes the connection and rejects;
\* execute() turns it into the error result
failed(r, text, names) ==
  [req[r] EXCEPT !.pc = "done", !.closed = @ + 1, !.pending = {},
                 !.outcome = [kind |-> "error", text |-> text, names |-> names]]

\* findSubjectIdsByName resolved: order the ids and issue the cache query
resolved(rec, subject1Id, subject2Id) ==
  [rec EXCEPT !.pc = "lookup", !.pending = {},
              !.subject1Id = subject1Id, !.subject2Id = subject2Id,
              !.firstId = orderIds(subject1Id, subject2Id)[1],
              !.secondId = orderIds(subject1Id, subject2Id)[2],
              !.trace = Append(@, "lookup")]

\* execute(): validation fails, the database file is missing, or the
\* connection is opened and the first exact query is issued.
\* cacheBefore, writesBefore and trace are history: the relationship table and
\* the number of upserts when the request started, and the operations the
\* request has issued.
Execute(r, subject_1, subject_2) ==
  /\ req[r].pc \in {"idle", "done"}
  /\ started < MaxRequests
  /\ started' = started + 1
  /\ LET validationError == validateToolParams(subject_1, subject_2)
         fresh == [IdleReq EXCEPT !.cacheBefore = db.subject_relationships,
                                  !.writesBefore = Len(writes)]
     IN IF validationError # Null
        THEN req' = [req EXCEPT ![r] =
               [fresh EXCEPT !.pc = "done",
                  !.outcome = [kind |-> "invalid", text |-> validationError, names |-> <<>>]]]
        ELSE \E existsSync \in BOOLEAN :
               req' = [req EXCEPT ![r] =
                 IF existsSync
                 THEN [fresh EXCEPT !.pc = "exact1", !.opened = 1,
                         !.subject1Name = trim(subject_1), !.subject2Name = trim(subject_2)]
                 ELSE [fresh EXCEPT !.pc = "done",
                         !.subject1Name = trim(subject_1), !.subject2Name = trim(subject_2),
                         !.outcome = [kind |-> "error", text |-> "Database file not found",
                                      names |-> <<>>]]]
  /\ UNCHANGED <<dbscan, db, writes, lookup, evidence, findSources, query>>

\* callback of the exact query for subject 1
ExactMatch1(r) ==
  /\ req[r].pc = "exact1"
  /\ \E err1 \in BOOLEAN :
       IF err1
       THEN req' = [req EXCEPT ![r] = failed(r, "Failed to search for subject 1", <<>>)]
       ELSE \E subject1Row \in exactQuery(db.subjects, req[r].subject1Name) :
              req' = [req EXCEPT ![r].pc = "exact2", ![r].subject1Row = subject1Row]
  /\ UNCHANGED <<dbscan, db, started, writes, lookup, evidence, findSources, query>>

\* callback of the exact query for subject 2: both found, or the fuzzy
\* queries for the missing names are issued (findBestMatchingSubjects)
ExactMatch2(r) ==
  /\ req[r].pc = "exact2"
  /\ \E err2 \in BOOLEAN :
       IF err2
       THEN req' = [req EXCEPT ![r] = failed(r, "Failed to search for subject 2", <<>>)]
       ELSE \E subject2Row \in exactQuery(db.subjects, req[r].subject2Name) :
              req' = [req EXCEPT ![r] =
                IF req[r].subject1Row # NoRow /\ subject2Row # NoRow
                THEN resolved([req[r] EXCEPT !.subject2Row = subject2Row],
                              req[r].subject1Row, subject2Row)
                ELSE [req[r] EXCEPT !.pc = "fuzzy", !.subject2Row = subject2Row,
                        !.pending = {side \in {1, 2} :
                                       \/ side = 1 /\ req[r].subject1Row = NoRow
                                       \/ side = 2 /\ subject2Row = NoRow}]]
  /\ UNCHANGED <<dbscan, db, started, writes, lookup, evidence, findSources, query>>

\* the then-handler taking the first fuzzy result for subject 2 whatever
\* subject 1 needed
FuzzyMatch_firstResult(r, side) ==
  /\ req[r].pc = "fuzzy"
  /\ side \in req[r].pending
  /\ \E err \in BOOLEAN :
       IF err
       THEN req' = [req EXCEPT ![r] = failed(r, "fuzzy query failed", <<>>)]
       ELSE \E row \in fuzzyQuery(db.subjects,
                         IF side = 1 THEN req[r].subject1Name ELSE req[r].subject2Name) :
         LET rec == IF side = 1 THEN [req[r] EXCEPT !.fuzzy1 = row, !.pending = @ \ {side}]
                                ELSE [req[r] EXCEPT !.fuzzy2 = row, !.pending = @ \ {side}]
             finalSubject1 == IF rec.subject1Row # NoRow THEN rec.subject1Row ELSE rec.fuzzy1
             finalSubject2 == IF rec.subject2Row # NoRow THEN rec.subject2Row
                              ELSE IF rec.subject1Row = NoRow THEN rec.fuzzy1 ELSE rec.fuzzy2
         IN req' = [req EXCEPT ![r] =
              IF rec.pending # {} THEN rec
              ELSE IF finalSubject1 = NoRow
                   THEN failed(r, "No matching subject found", <<req[r].subject1Name>>)
              ELSE IF finalSubject2 = NoRow
                   THEN failed(r, "No matching subject found", <<req[r].subject2Name>>)
              ELSE resolved(rec, finalSubject1, finalSubject2)]
  /\ UNCHANGED <<dbscan, db, started, writes, lookup, evidence, findSources, query>>

\* callback of one fuzzy query; the last one settles Promise.all and its
\* then-handler runs
FuzzyMatch(r, side) ==
  /\ req[r].pc = "fuzzy"
  /\ side \in req[r].pending
  /\ \E err \in BOOLEAN :
       IF err
       THEN req' = [req EXCEPT ![r] = failed(r, "fuzzy query failed", <<>>)]
       ELSE \E row \in fuzzyQuery(db.subjects,
                         IF side = 1 THEN req[r].subject1Name ELSE req[r].subject2Name) :
         LET rec == IF side = 1 THEN [req[r] EXCEPT !.fuzzy1 = row, !.pending = @ \ {side}]
                                ELSE [req[r] EXCEPT !.fuzzy2 = row, !.pending = @ \ {side}]
             finalSubject1 == IF rec.subject1Row # NoRow THEN rec.subject1Row ELSE rec.fuzzy1
             finalSubject2 == IF rec.subject2Row # NoRow THEN rec.subject2Row ELSE rec.fuzzy2
         IN req' = [req EXCEPT ![r] =
              IF rec.pending # {} THEN rec
              ELSE IF finalSubject1 = NoRow
                   THEN failed(r, "No matching subject found", <<req[r].subject1Name>>)
              ELSE IF finalSubject2 = NoRow
                   THEN failed(r, "No matching subject found", <<req[r].subject2Name>>)
              ELSE resolved(rec, finalSubject1, finalSubject2)]
  /\ UNCHANGED <<dbscan, db, started, writes, lookup, evidence, findSources, query>>

\* the two parameters bound to the wrong columns
cachedRows_swapped(relationships, firstId, secondId) ==
  {row \in relationships : row.subject_1 = secondId /\ row.subject_2 = firstId}

\* SELECT relationship_summary FROM subject_relationships
\* WHERE subject_1 = firstId AND subject_2 = secondId
cachedRows(relationships, firstId, secondId) ==
  {row \in relationships : row.subject_1 = firstId /\ row.subject_2 = secondId}

\* callback of the cache query: a stored non-empty summary is returned,
\* otherwise generateRelationshipSummary issues the evidence query
CacheLookup(r) ==
  /\ req[r].pc = "lookup"
  /\ \E err \in BOOLEAN :
       IF err
       THEN req' = [req EXCEPT ![r] = failed(r, "Database query failed", <<>>)]
       ELSE LET found == cachedRows(db.subject_relationships, req[r].firstId, req[r].secondId)
            IN IF \E row \in found : truthy(row.relationship_summary)
               THEN \E row \in found :
                      /\ truthy(row.relationship_summary)
                      /\ req' = [req EXCEPT ![r].pc = "done", ![r].closed = @ + 1,
                                   ![r].cacheHit = TRUE,
                                   ![r].outcome = [kind |-> "ok",
                                                   text |-> row.relationship_summary,
                                                   names |-> <<>>]]
               ELSE req' = [req EXCEPT ![r].pc = "retrieve",
                              ![r].subjects = clusterSubjects(req[r].firstId, req[r].secondId,
                                                req[r].subject1Name, req[r].subject2Name),
                              ![r].trace = Append(@, "retrieve")]
  /\ UNCHANGED <<dbscan, db, started, writes, lookup, evidence, findSources, query>>

\* createSubjectUnderstandingPrompt: what the prompt is made of
createSubjectUnderstandingPrompt(sources, subject1, subject2) ==
  [sources |-> sources, subject1 |-> subject1, subject2 |-> subject2,
   mainUserInvolved |-> (subject1 = SamHall \/ subject2 = SamHall)]

\* callback of the evidence query: cluster, then either nothing to summarize
\* (the upsert of a null summary is issued) or the summarizer is called
RetrieveSources(r) ==
  /\ req[r].pc = "retrieve"
  /\ \E err \in BOOLEAN :
       IF err
       THEN req' = [req EXCEPT ![r] = failed(r, "Failed to get source groups", <<>>)]
       ELSE LET subjects == req[r].subjects
                rows == sourceGroupRows(db, [k \in 1..Len(subjects) |-> toLowerCase(subjects[k])],
                                        Len(subjects))
            IN IF clusterRowsThrows(rows)
               THEN req' = [req EXCEPT ![r] =
                      [failed(r, "Failed to process clustering", <<>>) EXCEPT !.rows = rows]]
               ELSE LET clustersWithCentroids == clusterRows(rows, DefaultEps, DefaultMinPoints)
                    IN IF Len(clustersWithCentroids) = 0
                       THEN req' = [req EXCEPT ![r].pc = "update", ![r].rows = rows,
                                      ![r].relationshipSummary = Null,
                                      ![r].trace = Append(@, "upsert")]
                       ELSE req' = [req EXCEPT ![r].pc = "summarize", ![r].rows = rows,
                                      ![r].clustersWithCentroids = clustersWithCentroids,
                                      ![r].prompt = createSubjectUnderstandingPrompt(
                                          sampleSources(clustersWithCentroids, 1),
                                          req[r].subject1Name, req[r].subject2Name),
                                      ![r].trace = Append(@, "summarize")]
  /\ UNCHANGED <<dbscan, db, started, writes, lookup, evidence, findSources, query>>

\* the catch block returning the placeholder instead of throwing
SummarizerResult_swallowed(r) ==
  /\ req[r].pc = "summarize"
  /\ \E result \in GeminiResults :
       req' = [req EXCEPT ![r].pc = "update",
                 ![r].relationshipSummary =
                    IF result.ok THEN orElse(result.text, Placeholder) ELSE Placeholder,
                 ![r].trace = IF result.ok THEN Append(@, "upsert")
                              ELSE Append(Append(@, "summarizerFailed"), "upsert")]
  /\ UNCHANGED <<dbscan, db, started, writes, lookup, evidence, findSources, query>>

\* callGeminiForRelationshipSummary settles: failure or timeout rejects,
\* otherwise the upsert of the text (or of the placeholder) is issued
SummarizerResult(r) ==
  /\ req[r].pc = "summarize"
  /\ \E result \in GeminiResults :
       IF ~result.ok
       THEN req' = [req EXCEPT ![r] =
              [failed(r, "Failed to generate relationship summary", <<>>)
                 EXCEPT !.trace = Append(@, "summarizerFailed")]]
       ELSE req' = [req EXCEPT ![r].pc = "update",
                      ![r].relationshipSummary = orElse(result.text, Placeholder),
                      ![r].trace = Append(@, "upsert")]
  /\ UNCHANGED <<dbscan, db, started, writes, lookup, evidence, findSources, query>>

\* a plain INSERT: the row is added next to the one already stored
upsert_addsRow(relationships, firstId, secondId, relationshipSummary, now) ==
  relationships
    \cup {[subject_1 |-> firstId, subject_2 |-> secondId,
           relationship_summary |-> relationshipSummary, updated_at |-> now]}

\* INSERT ... ON CONFLICT(subject_1, subject_2) DO UPDATE SET ...
\* updated_at is the time of the write, measured in requests started
upsert(relationships, firstId, secondId, relationshipSummary, now) ==
  (relationships \ cachedRows(relationships, firstId, secondId))
    \cup {[subject_1 |-> firstId, subject_2 |-> secondId,
           relationship_summary |-> relationshipSummary, updated_at |-> now]}

\* a plain INSERT into a table with a unique index on the pair: the write is
\* refused when the pair already has a row
UpsertRelationship_rejectsExisting(r) ==
  /\ req[r].pc = "update"
  /\ \E err \in BOOLEAN :
       IF err \/ (db.orderCheck /\ ~(req[r].firstId < req[r].secondId))
              \/ cachedRows(db.subject_relationships, req[r].firstId, req[r].secondId) # {}
       THEN /\ req' = [req EXCEPT ![r] =
                  [failed(r, "Failed to update relationship", <<>>)
                     EXCEPT !.trace = Append(@, "uniqueFailed")]]
            /\ UNCHANGED <<db, writes>>
       ELSE /\ writes' = Append(writes, [subject1Id |-> req[r].subject1Id,
                                         subject2Id |-> req[r].subject2Id,
                                         relationship_summary |-> req[r].relationshipSummary,
                                         at |-> started])
            /\ db' = [db EXCEPT !.subject_relationships =
                        upsert(@, req[r].firstId, req[r].secondId,
                               req[r].relationshipSummary, started)]
            /\ req' = [req EXCEPT ![r].pc = "done", ![r].closed = @ + 1,
                         ![r].trace = Append(@, "written"),
                         ![r].outcome = [kind |-> "ok",
                                         text |-> orElse(req[r].relationshipSummary,
                                                         NoSharedSources),
                                         names |-> <<>>]]
  /\ UNCHANGED <<dbscan, started, lookup, evidence, findSources, query>>

\* callback of updateSubjectRelationship's db.run, then close and resolve.
\* The statement fails on a store error or on the ordering check; the trace
\* records which (err.message is part of the error text).
UpsertRelationship(r) ==
  /\ req[r].pc = "update"
  /\ \E err \in BOOLEAN :
       IF err \/ (db.orderCheck /\ ~(req[r].firstId < req[r].secondId))
       THEN /\ req' = [req EXCEPT ![r] =
                  [failed(r, "Failed to update relationship", <<>>)
                     EXCEPT !.trace = Append(@, IF err THEN "storeError" ELSE "checkFailed")]]
            /\ UNCHANGED <<db, writes>>
       ELSE /\ writes' = Append(writes, [subject1Id |-> req[r].subject1Id,
                                         subject2Id |-> req[r].subject2Id,
                                         relationship_summary |-> req[r].relationshipSummary,
                                         at |-> started])
            /\ db' = [db EXCEPT !.subject_relationships =
                        upsert(@, req[r].firstId, req[r].secondId,
                               req[r].relationshipSummary, started)]
            /\ req' = [req EXCEPT ![r].pc = "done", ![r].closed = @ + 1,
                         ![r].trace = Append(@, "written"),
                         ![r].outcome = [kind |-> "ok",
                                         text |-> orElse(req[r].relationshipSummary,
                                                         NoSharedSources),
                                         names |-> <<>>]]
  /\ UNCHANGED <<dbscan, started, lookup, evidence, findSources, query>>

Init ==
  /\ dbscan = DbscanIdle
  /\ \E vs \in GroupVectors, orderCheck \in BOOLEAN : db = Database(vs, orderCheck)
  /\ req = [r \in Slots |-> IdleReq]
  /\ started = 0
  /\ writes = <<>>
  /\ lookup = LookupIdle
  /\ findSources = FindSourcesIdle
  /\ query = QueryIdle
  /\ evidence = EvidenceIdle

Next ==
  \/ \E r \in Slots, subject_1 \in InputNames, subject_2 \in InputNames :
       Execute(r, subject_1, subject_2)
  \/ \E r \in Slots : ExactMatch1(r)
  \/ \E r \in Slots : ExactMatch2(r)
  \/ \E r \in Slots, side \in {1, 2} : FuzzyMatch(r, side)
  \/ \E r \in Slots : CacheLookup(r)
  \/ \E r \in Slots : RetrieveSources(r)
  \/ \E r \in Slots : SummarizerResult(r)
  \/ \E r \in Slots : UpsertRelationship(r)

Spec == Init /\ [][Next]_vars

TypeOK ==
  /\ started \in 0..MaxRequests
  /\ \A r \in Slots : req[r].closed <= req[r].opened

\* ------------------------------------------------------------------------
\* Two requests in flight at once: every callback of one request can run
\* between two callbacks of the other
\* ------------------------------------------------------------------------
ConcurrentSlots == {1, 2}

ConcurrentNames == {Bob, Bo, Ann}

InitConcurrent ==
  /\ dbscan = DbscanIdle
  /\ \E vs \in GroupVectors, orderCheck \in BOOLEAN : db = Database(vs, orderCheck)
  /\ req = [r \in ConcurrentSlots |-> IdleReq]
  /\ started = 0
  /\ writes = <<>>
  /\ lookup = LookupIdle
  /\ findSources = FindSourcesIdle
  /\ query = QueryIdle
  /\ evidence = EvidenceIdle

NextConcurrent ==
  \/ \E r \in ConcurrentSlots, subject_1 \in ConcurrentNames, subject_2 \in ConcurrentNames :
       Execute(r, subject_1, subject_2)
  \/ \E r \in ConcurrentSlots : ExactMatch1(r)
  \/ \E r \in ConcurrentSlots : ExactMatch2(r)
  \/ \E r \in ConcurrentSlots, side \in {1, 2} : FuzzyMatch(r, side)
  \/ \E r \in ConcurrentSlots : CacheLookup(r)
  \/ \E r \in ConcurrentSlots : RetrieveSources(r)
  \/ \E r \in ConcurrentSlots : SummarizerResult(r)
  \/ \E r \in ConcurrentSlots : UpsertRelationship(r)

SpecConcurrent == InitConcurrent /\ [][NextConcurrent]_vars

\* ------------------------------------------------------------------------
\* Name resolution: findSubjectIdByName (find_sources_by_subject) next to
\* findSubjectIdsByName / findBestMatchingSubjects (find_subject_relationship)
\* ------------------------------------------------------------------------
Sam == <<"S","a","m">>
SamHallJr == <<"S","a","m"," ","H","a","l","l"," ","J","r">>
samHallLower == <<"s","a","m"," ","h","a","l","l">>
John == <<"J","o","h","n">>
Johnson == <<"J","o","h","n","s","o","n">>
JohnsDeli == <<"J","o","h","n","'","s"," ","D","e","l","i">>
JUnderscoreHn == <<"J","_","h","n">>
Quin == <<"Q","u","i","n">>

\* the subjects tables name resolution is run against: the two catalogs of
\* the documented examples, and one where the only entity containing the
\* whole of "Sam Hall" is longer than one containing its first token
Catalogs ==
  {{[id |-> 1, subject |-> Sam], [id |-> 2, subject |-> SamHall]},
   {[id |-> 1, subject |-> Johnson], [id |-> 2, subject |-> JohnsDeli]},
   {[id |-> 1, subject |-> Sam], [id |-> 2, subject |-> SamHallJr],
    [id |-> 3, subject |-> Johnson], [id |-> 4, subject |-> JohnsDeli]}}

ResolverNames == {Sam, SamHall, samHallLower, John, JUnderscoreHn, Zed, Quin}

LookupCall(subjectName) ==
  [pc |-> "exact", subjectName |-> subjectName, row |-> NoRow, result |-> NoRow,
   error |-> Null]

\* findSourcesBySubject calls findSubjectIdByName(db, params.subject.trim()):
\* the exact query is issued
FindSubjectIdByName(subject) ==
  /\ lookup.pc \in {"idle", "done"}
  /\ trim(subject) # <<>>
  /\ started < MaxRequests
  /\ started' = started + 1
  /\ lookup' = LookupCall(trim(subject))
  /\ UNCHANGED <<dbscan, db, req, writes, evidence, findSources, query>>

\* callback of the exact query: reject, resolve(row.id), or issue the fuzzy
\* query
LookupExact ==
  /\ lookup.pc = "exact"
  /\ \E err \in BOOLEAN :
       IF err
       THEN lookup' = [lookup EXCEPT !.pc = "done", !.error = "Failed to search for subject"]
       ELSE \E row \in exactQuery(db.subjects, lookup.subjectName) :
              lookup' = IF row # NoRow
                        THEN [lookup EXCEPT !.pc = "done", !.row = row, !.result = row]
                        ELSE [lookup EXCEPT !.pc = "fuzzy"]
  /\ UNCHANGED <<dbscan, db, req, started, writes, evidence, findSources, query>>

\* callback of the fuzzy query: reject, or resolve(row2 ? row2.id : null)
LookupFuzzy ==
  /\ lookup.pc = "fuzzy"
  /\ \E err2 \in BOOLEAN :
       IF err2
       THEN lookup' = [lookup EXCEPT !.pc = "done",
                                     !.error = "Failed to fuzzy search for subject"]
       ELSE \E row2 \in fuzzyQuery(db.subjects, lookup.subjectName) :
              lookup' = [lookup EXCEPT !.pc = "done", !.result = row2]
  /\ UNCHANGED <<dbscan, db, req, started, writes, evidence, findSources, query>>

ResolverDatabase(catalog) == [EmptyDb EXCEPT !.subjects = catalog]

InitResolver ==
  /\ dbscan = DbscanIdle
  /\ \E catalog \in Catalogs : db = ResolverDatabase(catalog)
  /\ req = [r \in Slots |-> IdleReq]
  /\ started = 0
  /\ writes = <<>>
  /\ lookup = LookupIdle
  /\ findSources = FindSourcesIdle
  /\ query = QueryIdle
  /\ evidence = EvidenceIdle

\* both resolvers, up to the point where the names are resolved or rejected
NextResolver ==
  \/ \E r \in Slots, subject_1 \in ResolverNames, subject_2 \in ResolverNames :
       Execute(r, subject_1, subject_2)
  \/ \E r \in Slots : ExactMatch1(r)
  \/ \E r \in Slots : ExactMatch2(r)
  \/ \E r \in Slots, side \in {1, 2} : FuzzyMatch(r, side)
  \/ \E subject \in ResolverNames : FindSubjectIdByName(subject)
  \/ LookupExact
  \/ LookupFuzzy

SpecResolver == InitResolver /\ [][NextResolver]_vars

\* ------------------------------------------------------------------------
\* Evidence clustering and sampling over rows already fetched: the callback
\* of db.all in dbscanClusterSubjectEmbeddings, then the then-handler of
\* generateRelationshipSummary
\* ------------------------------------------------------------------------
\* one-dimensional embeddings: three values 0.2 apart in a row, one far away
EvidencePoints == {<<0>>, <<10>>, <<12>>, <<14>>}

Texts == <<"t1", "t2", "t3", "t4", "t5", "t6", "t7", "t8", "t9">>

\* the k-th row of the result set: ORDER BY s.id, one group per source
evidenceRow(k, v) ==
  [source_id |-> k, source_text |-> Texts[k], group_id |-> k, vector |-> JsonVector(v)]

EvidenceCall(rows) ==
  [pc |-> "rows", rows |-> rows, clusterIds |-> <<>>, clustersWithCentroids |-> <<>>,
   sampledSources |-> <<>>]

InitEvidence ==
  /\ \E vectors \in SeqsUpTo(EvidencePoints, MaxRows) :
       evidence = EvidenceCall([k \in 1..Len(vectors) |-> evidenceRow(k, vectors[k])])
  /\ dbscan = DbscanIdle
  /\ db = EmptyDb
  /\ req = [r \in Slots |-> IdleReq]
  /\ started = 0
  /\ writes = <<>>
  /\ lookup = LookupIdle
  /\ findSources = FindSourcesIdle
  /\ query = QueryIdle

\* callback of db.all with the rows: parse, cluster with eps 0.2 and
\* minPoints 2, group, centroids; resolve(out) or reject
ClusterEvidence ==
  /\ evidence.pc = "rows"
  /\ evidence' =
       IF clusterRowsThrows(evidence.rows)
       THEN [evidence EXCEPT !.pc = "rejected"]
       ELSE [evidence EXCEPT
               !.pc = "clustered",
               !.clusterIds = IF Len(evidence.rows) = 0 THEN <<>>
                              ELSE dbscanClustering(vectorsOf(evidence.rows),
                                                    DefaultEps, DefaultMinPoints),
               !.clustersWithCentroids =
                  clusterRows(evidence.rows, DefaultEps, DefaultMinPoints)]
  /\ UNCHANGED <<dbscan, db, req, started, writes, lookup, findSources, query>>

\* then-handler of generateRelationshipSummary: resolve(null) without
\* clusters, otherwise the sampled texts go into the prompt
SampleEvidence ==
  /\ evidence.pc = "clustered"
  /\ evidence' =
       IF Len(evidence.clustersWithCentroids) = 0
       THEN [evidence EXCEPT !.pc = "empty"]
       ELSE [evidence EXCEPT !.pc = "sampled",
               !.sampledSources = sampleSources(evidence.clustersWithCentroids, 1)]
  /\ UNCHANGED <<dbscan, db, req, started, writes, lookup, findSources, query>>

NextEvidence ==
  \/ ClusterEvidence
  \/ SampleEvidence

SpecEvidence == InitEvidence /\ [][NextEvidence]_vars

\* ------------------------------------------------------------------------
\* sqlite_query. A query text is the sequence of its words (a blank is the
\* word " "); startsWith and includes are tested word by word
\* ------------------------------------------------------------------------
MaxTableRows == 3

DefaultLimit == 100

MaxLimit == 1000

lowerWord(w) ==
  CASE w = "SELECT" -> "select"
    [] w = "LIMIT" -> "limit"
    [] w = "WITH" -> "with"
    [] w = "EXPLAIN" -> "explain"
    [] w = "PRAGMA" -> "pragma"
    [] w = "DELETE" -> "delete"
    [] OTHER -> w

lowerQuery(q) == [k \in 1..Len(q) |-> lowerWord(q[k])]

startsWith(q, prefix) == Len(q) >= Len(prefix) /\ SubSeq(q, 1, Len(prefix)) = prefix

\* the words that have 'limit' in them
LimitWords == {"limit", "rate_limit"}

includesLimit(q) == \E k \in 1..Len(q) : q[k] \in LimitWords

allowedPrefixes ==
  {<<"select">>, <<"with">>, <<"explain">>, <<"pragma", "table_info">>,
   <<"pragma", "table_list">>, <<"pragma", "schema_version">>,
   <<".schema">>, <<".tables">>, <<".indexes">>}

\* query.toLowerCase().startsWith('.')
DotWords == {".schema", ".tables", ".indexes"}

startsWithDot(q) == q[1] \in DotWords

\* params.limit === undefined is a params record without the field
hasLimit(params) == "limit" \in DOMAIN params

\* validateToolParams of sqlite_query: the error text or Null (the schema
\* check of the parameter types is not modelled)
validateQueryParams(params) ==
  IF trim(params.query) = <<>> THEN "query cannot be empty"
  ELSE IF ~\E prefix \in allowedPrefixes :
             startsWith(lowerQuery(trim(params.query)), prefix)
       THEN "Only SELECT queries and schema inspection commands are allowed for safety"
  ELSE IF hasLimit(params) /\ (params.limit < 1 \/ params.limit > MaxLimit)
       THEN "limit must be between 1 and 1000"
  ELSE Null

\* params.limit || 100
limitArgument(params) ==
  IF hasLimit(params) /\ params.limit # 0 THEN params.limit ELSE DefaultLimit

\* the statement handed to db.all
finalQuery(q, limit) ==
  IF startsWith(lowerQuery(q), <<"select">>) /\ ~includesLimit(lowerQuery(q))
  THEN q \o <<"LIMIT", ToString(limit)>>
  ELSE q

SourcesColumns == <<"id", "source_text", "tags", "dates", "group_id", "alias_id">>

TableNames ==
  <<"source_groups", "source_subjects", "sources", "subject_relationships", "subjects">>

\* the statements the tool is called with
SelectAll == <<"SELECT", "*", "FROM", "sources">>
SelectSpaced == <<" ", "select", "*", "from", "sources", " ">>
SelectOwnLimit == <<"SELECT", "*", "FROM", "sources", "LIMIT", "3">>
SelectAlias == <<"SELECT", "id", "AS", "rate_limit", "FROM", "sources">>
WithSelect ==
  <<"WITH", "t", "AS", "(", "SELECT", "*", "FROM", "sources", ")",
    "SELECT", "*", "FROM", "t">>
ExplainPlan == <<"EXPLAIN", "QUERY", "PLAN", "SELECT", "*", "FROM", "sources">>
PragmaTableInfo == <<"PRAGMA", "table_info", "(", "sources", ")">>
DotTables == <<".tables">>
DotSchemaOf == <<".schema", "sources">>
DeleteAll == <<"DELETE", "FROM", "sources">>
Blank == <<" ">>

Queries ==
  {SelectAll, SelectSpaced, SelectOwnLimit, SelectAlias, WithSelect, ExplainPlan,
   PragmaTableInfo, DotTables, DotSchemaOf, DeleteAll, Blank}

QueryLimits == {0, 1, 2, MaxLimit, MaxLimit + 1}

QueryParams ==
  {[query |-> q] : q \in Queries}
    \cup {[query |-> q, limit |-> l] : q \in Queries, l \in QueryLimits}

\* the number a LIMIT clause is written with
numberOf(w) == CHOOSE n \in 0..MaxLimit : ToString(n) = w

\* what SQLite answers to a statement over the sources table: the table in
\* rowid order for the SELECT and WITH statements, one row per scan for
\* EXPLAIN QUERY PLAN, one row per column for PRAGMA table_info; a trailing
\* LIMIT n keeps the first n rows
sqliteRows(statement, table) ==
  LET q == lowerQuery(statement)
      limited == Len(q) >= 2 /\ q[Len(q) - 1] = "limit"
      all == IF startsWith(q, <<"select">>) \/ startsWith(q, <<"with">>)
             THEN [k \in 1..Cardinality(table) |-> [id |-> k]]
             ELSE IF startsWith(q, <<"explain">>) THEN <<[detail |-> "SCAN sources"]>>
             ELSE [k \in 1..Len(SourcesColumns) |-> [name |-> SourcesColumns[k]]]
  IN IF limited THEN SubSeq(all, 1, Min(numberOf(q[Len(q)]), Len(all))) ELSE all

QueryCall(params) ==
  [pc |-> "open", params |-> params, query |-> trim(params.query),
   limit |-> limitArgument(params), opened |-> 0, closed |-> 0,
   rows |-> <<>>, outcome |-> NoOutcome]

\* execute(): validation, then executeQuery up to new sqlite3.Database, or
\* the rejection for the missing file
QueryExecute(params) ==
  /\ query.pc = "idle"
  /\ query' =
       IF validateQueryParams(params) # Null
       THEN [QueryCall(params) EXCEPT
               !.pc = "done",
               !.outcome = [kind |-> "invalid", text |-> validateQueryParams(params),
                            names |-> <<>>]]
       ELSE QueryCall(params)
  /\ UNCHANGED <<dbscan, db, req, started, writes, lookup, evidence, findSources>>

\* existsSync(dbPath), new sqlite3.Database(dbPath, OPEN_READONLY), and the
\* statement or the dot command is issued
QueryOpen ==
  /\ query.pc = "open"
  /\ \E exists \in BOOLEAN :
       query' =
         IF ~exists
         THEN [query EXCEPT !.pc = "done",
                 !.outcome = [kind |-> "error", text |-> "Database file not found",
                              names |-> <<>>]]
         ELSE [query EXCEPT
                 !.pc = IF startsWithDot(lowerQuery(query.query)) THEN "dot" ELSE "all",
                 !.opened = @ + 1]
  /\ UNCHANGED <<dbscan, db, req, started, writes, lookup, evidence, findSources>>

\* handleDotCommand settles: db.close() and the rows, or db.close() and the
\* error
QueryDotCommand ==
  /\ query.pc = "dot"
  /\ \E err \in BOOLEAN :
       query' =
         IF lowerQuery(query.query) # <<".tables">>
         THEN [query EXCEPT !.pc = "done", !.closed = @ + 1,
                 !.outcome = [kind |-> "error", text |-> "Unsupported dot command",
                              names |-> <<>>]]
         ELSE IF err
         THEN [query EXCEPT !.pc = "done", !.closed = @ + 1,
                 !.outcome = [kind |-> "error", text |-> "Failed to list tables",
                              names |-> <<>>]]
         ELSE [query EXCEPT !.pc = "done", !.closed = @ + 1,
                 !.rows = [k \in 1..Len(TableNames) |-> [name |-> TableNames[k]]],
                 !.outcome = [kind |-> "ok", text |-> "Query returned", names |-> <<>>]]
  /\ UNCHANGED <<dbscan, db, req, started, writes, lookup, evidence, findSources>>

\* callback of db.all(finalQuery): db.close(), then reject or resolve(rows)
QueryAll ==
  /\ query.pc = "all"
  /\ \E err \in BOOLEAN :
       query' =
         IF err
         THEN [query EXCEPT !.pc = "done", !.closed = @ + 1,
                 !.outcome = [kind |-> "error", text |-> "Query failed", names |-> <<>>]]
         ELSE [query EXCEPT !.pc = "done", !.closed = @ + 1,
                 !.rows = sqliteRows(finalQuery(query.query, query.limit), db.sources),
                 !.outcome = [kind |-> "ok", text |-> "Query returned", names |-> <<>>]]
  /\ UNCHANGED <<dbscan, db, req, started, writes, lookup, evidence, findSources>>

\* the tables the statements are run against: up to MaxTableRows sources,
\* or one more than the default limit
TableSizes == (0..MaxTableRows) \cup {DefaultLimit + 1}

QueryDatabase(n) ==
  [EmptyDb EXCEPT !.sources = {[id |-> k, source_text |-> "t", group_id |-> 1] : k \in 1..n}]

InitQuery ==
  /\ dbscan = DbscanIdle
  /\ \E n \in TableSizes : db = QueryDatabase(n)
  /\ req = [r \in Slots |-> IdleReq]
  /\ started = 0
  /\ writes = <<>>
  /\ lookup = LookupIdle
  /\ evidence = EvidenceIdle
  /\ findSources = FindSourcesIdle
  /\ query = QueryIdle

NextQuery ==
  \/ \E params \in QueryParams : QueryExecute(params)
  \/ QueryOpen
  \/ QueryDotCommand
  \/ QueryAll

SpecQuery == InitQuery /\ [][NextQuery]_vars

\* ------------------------------------------------------------------------
\* find_sources_by_subject: execute / findSourcesBySubject, around the
\* lookup of findSubjectIdByName
\* ------------------------------------------------------------------------
DefaultSourcesLimit == 10

MaxSourcesLimit == 100

FindSourcesLimits == {0, 1, 2, MaxSourcesLimit + 1}

FindSourcesParams ==
  {[subject |-> s] : s \in InputNames \cup {<<" ">>}}
    \cup {[subject |-> s, limit |-> l] : s \in InputNames, l \in FindSourcesLimits}

\* validateToolParams of find_sources_by_subject: the error text or Null
\* (the schema check of the parameter types is not modelled)
validateSourcesParams(params) ==
  IF trim(params.subject) = <<>> THEN "subject cannot be empty"
  ELSE IF hasLimit(params) /\ (params.limit < 1 \/ params.limit > MaxSourcesLimit)
       THEN "limit must be between 1 and 100"
  ELSE Null

\* SELECT ... FROM sources s JOIN source_subjects ss JOIN subjects sub
\* WHERE sub.id = subjectId ORDER BY ss.score DESC, s.id LIMIT limit:
\* the ids of the sources, in id order (the modelled links carry no score)
RECURSIVE idsInOrder(_)
idsInOrder(ids) ==
  IF ids = {} THEN <<>>
  ELSE LET least == CHOOSE x \in ids : \A y \in ids : x <= y
       IN <<least>> \o idsInOrder(ids \ {least})

sourcesOfSubject(database, subjectId, limit) ==
  LET all == idsInOrder({src.id : src \in {s \in database.sources :
                                             <<s.id, subjectId>> \in database.source_subjects}})
  IN SubSeq(all, 1, Min(limit, Len(all)))

FindSourcesCall(params) ==
  [pc |-> "open", params |-> params, subjectName |-> trim(params.subject),
   limit |-> IF hasLimit(params) /\ params.limit # 0 THEN params.limit
             ELSE DefaultSourcesLimit,
   opened |-> 0, closed |-> 0, sources |-> <<>>, outcome |-> NoOutcome]

\* execute(): validation, then findSourcesBySubject is called
FindSourcesExecute(params) ==
  /\ findSources.pc = "idle"
  /\ findSources' =
       IF validateSourcesParams(params) # Null
       THEN [FindSourcesCall(params) EXCEPT
               !.pc = "done",
               !.outcome = [kind |-> "invalid", text |-> validateSourcesParams(params),
                            names |-> <<>>]]
       ELSE FindSourcesCall(params)
  /\ UNCHANGED <<dbscan, db, req, started, writes, lookup, evidence, query>>

\* existsSync(dbPath), new sqlite3.Database(dbPath), and findSubjectIdByName
\* issues its exact query; or the rejection for the missing file
FindSourcesOpen ==
  /\ findSources.pc = "open"
  /\ \E exists \in BOOLEAN :
       IF ~exists
       THEN /\ findSources' =
                 [findSources EXCEPT !.pc = "done",
                    !.outcome = [kind |-> "error", text |-> "Database file not found",
                                 names |-> <<>>]]
            /\ UNCHANGED lookup
       ELSE /\ findSources' = [findSources EXCEPT !.pc = "resolving", !.opened = @ + 1]
            /\ lookup' = LookupCall(findSources.subjectName)
  /\ UNCHANGED <<dbscan, db, req, started, writes, evidence, query>>

\* findSubjectIdByName settled: the catch closes and rejects; the
\* then-handler resolves [] for no subject id, or issues the sources query
FindSourcesResolved ==
  /\ findSources.pc = "resolving"
  /\ lookup.pc = "done"
  /\ findSources' =
       IF lookup.error # Null
       THEN [findSources EXCEPT !.pc = "done", !.closed = @ + 1,
               !.outcome = [kind |-> "error", text |-> lookup.error, names |-> <<>>]]
       ELSE IF lookup.result = NoRow
       THEN [findSources EXCEPT !.pc = "done",
               !.outcome = [kind |-> "ok", text |-> "No sources found", names |-> <<>>]]
       ELSE [findSources EXCEPT !.pc = "query"]
  /\ UNCHANGED <<dbscan, db, req, started, writes, lookup, evidence, query>>

\* callback of the sources query: db.close(), then reject or resolve(sources)
FindSourcesAll ==
  /\ findSources.pc = "query"
  /\ \E err \in BOOLEAN :
       findSources' =
         IF err
         THEN [findSources EXCEPT !.pc = "done", !.closed = @ + 1,
                 !.outcome = [kind |-> "error", text |-> "Database query failed",
                              names |-> <<>>]]
         ELSE LET rows == sourcesOfSubject(db, lookup.result, findSources.limit)
              IN [findSources EXCEPT !.pc = "done", !.closed = @ + 1, !.sources = rows,
                    !.outcome = [kind |-> "ok",
                                 text |-> IF Len(rows) = 0 THEN "No sources found"
                                          ELSE "Found sources",
                                 names |-> <<>>]]
  /\ UNCHANGED <<dbscan, db, req, started, writes, lookup, evidence, query>>

InitFindSources ==
  /\ dbscan = DbscanIdle
  /\ \E vs \in GroupVectors, orderCheck \in BOOLEAN : db = Database(vs, orderCheck)
  /\ req = [r \in Slots |-> IdleReq]
  /\ started = 0
  /\ writes = <<>>
  /\ lookup = LookupIdle
  /\ evidence = EvidenceIdle
  /\ findSources = FindSourcesIdle
  /\ query = QueryIdle

NextFindSources ==
  \/ \E params \in FindSourcesParams : FindSourcesExecute(params)
  \/ FindSourcesOpen
  \/ LookupExact
  \/ LookupFuzzy
  \/ FindSourcesResolved
  \/ FindSourcesAll

SpecFindSources == InitFindSources /\ [][NextFindSources]_vars

\* ------------------------------------------------------------------------
\* Claims
\* ------------------------------------------------------------------------
SpecExampleEmbeddings == <<<<0, 0>>, <<0, 10>>, <<100, 100>>>>

\* the two points a, b are within eps of each other and of no other point
IsolatedPair(embeddings, eps, a, b) ==
  /\ a # b
  /\ getNeighbors(embeddings, a, eps) = <<b>>
  /\ getNeighbors(embeddings, b, eps) = <<a>>

\* C1: dbscanClustering([[0,0],[0,1],[10,10]], 1.5, 2) returns [0, 0, -1], and
\* with minPoints = 2 every pair of points that are within eps of each other
\* and of no other point gets one common cluster id (not -1).
C1_PairIsCluster ==
  (dbscan.pc = "done" /\ dbscan.minPoints = 2) =>
    /\ (dbscan.embeddings = SpecExampleEmbeddings /\ dbscan.eps = 15) =>
          dbscan.clusters = <<0, 0, NOISE>>
    /\ \A a, b \in 1..Len(dbscan.embeddings) :
          IsolatedPair(dbscan.embeddings, dbscan.eps, a, b) =>
            /\ dbscan.clusters[a] # NOISE
            /\ dbscan.clusters[a] = dbscan.clusters[b]

\* ---- helpers of the request claims ----
issued(r, operation) == includes(req[r].trace, operation)

\* the request has resolved both names
isResolved(r) == req[r].subject1Id # NoRow /\ req[r].subject2Id # NoRow

\* evidence clustering has returned to generateRelationshipSummary
clusteringReturned(r) == issued(r, "upsert") \/ issued(r, "summarize")

Max(a, b) == IF a < b THEN b ELSE a

MaxOf(S) == CHOOSE x \in S : \A y \in S : y <= x

\* C2: with eps = 0.2 and minPoints = 2, when the evidence retrieved for the
\* two subjects is three groups with embeddings [0,0], [0,0.1], [9,9], evidence
\* clustering returns exactly one cluster made of the first two, and the
\* summarizer is called with the texts of exactly those two.
ExampleVectors == <<<<0, 0>>, <<0, 1>>, <<90, 90>>>>

C2_EndToEndExample ==
  \A r \in Slots :
    (clusteringReturned(r) /\ vectorsOf(req[r].rows) = ExampleVectors) =>
      /\ Len(req[r].clustersWithCentroids) = 1
      /\ req[r].clustersWithCentroids[1].sources = SubSeq(req[r].rows, 1, 2)
      /\ issued(r, "summarize")
      /\ req[r].prompt.sources = <<req[r].rows[1].source_text, req[r].rows[2].source_text>>
      /\ req[r].outcome.text # NoSharedSources

\* C3: a request whose two names resolve to the same subject id fails right
\* after resolution: it issues no cache lookup, no evidence clustering, no
\* summarizer call and no cache write.
C3_SameSubjectRejected ==
  \A r \in Slots :
    (isResolved(r) /\ req[r].subject1Id = req[r].subject2Id) =>
      /\ req[r].pc = "done"
      /\ req[r].outcome.kind = "error"
      /\ req[r].trace = <<>>

\* C4: when evidence clustering returned no cluster, the step that ends the
\* request leaves the relationship table as it is and delivers the "no shared
\* sources" text as a normal result.
C4_NoClusterNoWrite ==
  [][\A r \in Slots :
       (req[r].pc = "update" /\ req[r].clustersWithCentroids = <<>> /\ req'[r].pc = "done") =>
         /\ db'.subject_relationships = db.subject_relationships
         /\ req'[r].outcome.kind = "ok"
         /\ req'[r].outcome.text = NoSharedSources]_vars

\* C5: evidence clustering is run over the name of the non-primary subject
\* when exactly one side resolved to the primary subject (id 1), whichever
\* side that is, and over both names when neither did.
C5_PrimaryExcluded ==
  \A r \in Slots :
    (isResolved(r) /\ issued(r, "retrieve")) =>
      LET primary1 == req[r].subject1Id = mainUserId
          primary2 == req[r].subject2Id = mainUserId
      IN /\ (primary1 /\ ~primary2) => req[r].subjects = <<req[r].subject2Name>>
         /\ (primary2 /\ ~primary1) => req[r].subjects = <<req[r].subject1Name>>
         /\ (~primary1 /\ ~primary2) =>
              req[r].subjects = <<req[r].subject1Name, req[r].subject2Name>>

\* the sources that have an embedding and mention every subject id of ids
evidenceForIds(database, ids) ==
  {src.id : src \in {x \in database.sources :
     /\ \E g \in database.source_groups : g.id = x.group_id /\ g.vector.kind # "null"
     /\ \A id \in ids : <<x.id, id>> \in database.source_subjects}}

\* C6: the evidence a request retrieves is the evidence that mentions the
\* subject ids its names resolved to (for the names it clusters over).
C6_EvidenceOfResolvedIds ==
  \A r \in Slots :
    clusteringReturned(r) =>
      LET idOf(name) == IF name = req[r].subject1Name THEN req[r].subject1Id
                        ELSE req[r].subject2Id
      IN {req[r].rows[k].source_id : k \in 1..Len(req[r].rows)}
           = evidenceForIds(db, {idOf(req[r].subjects[k]) : k \in 1..Len(req[r].subjects)})

\* C7: a request whose summarizer call failed or timed out has ended with an
\* error, has issued no upsert, and the relationship table is what it was
\* when the request started.
C7_SummarizerFailureNoWrite ==
  \A r \in Slots :
    issued(r, "summarizerFailed") =>
      /\ req[r].pc = "done"
      /\ req[r].outcome.kind = "error"
      /\ ~issued(r, "upsert")
      /\ ~issued(r, "written")
      /\ db.subject_relationships = req[r].cacheBefore

C7_Witness ==
  \E r \in Slots :
    /\ issued(r, "summarizerFailed")
    /\ req[r].pc = "done"
    /\ req[r].cacheBefore # {}

\* the non-empty summaries stored, when request r started, for the unordered
\* pair of the ids it resolved
storedBefore(r) ==
  {row \in req[r].cacheBefore :
     /\ row.subject_1 = Min(req[r].subject1Id, req[r].subject2Id)
     /\ row.subject_2 = Max(req[r].subject1Id, req[r].subject2Id)
     /\ truthy(row.relationship_summary)}

\* C8: a request for a pair that had a non-empty summary stored when it
\* started, and whose cache query did not fail, ends with exactly that summary
\* after the cache lookup alone: no evidence retrieval, no summarizer call, no
\* upsert, and the relationship table unchanged.
C8_CachedSummaryReturned ==
  \A r \in Slots :
    (/\ isResolved(r)
     /\ req[r].pc # "lookup"
     /\ storedBefore(r) # {}
     /\ req[r].outcome.text # "Database query failed") =>
      /\ req[r].pc = "done"
      /\ req[r].outcome.kind = "ok"
      /\ \E row \in storedBefore(r) : req[r].outcome.text = row.relationship_summary
      /\ req[r].trace = <<"lookup">>
      /\ db.subject_relationships = req[r].cacheBefore

C8_Witness ==
  \E r \in Slots :
    /\ req[r].pc = "done"
    /\ req[r].cacheHit
    /\ storedBefore(r) # {}
    /\ req[r].outcome.text \in {"s1", "s2"}
    /\ Len(writes) = 1

\* the upserts applied before request r started for the unordered pair of
\* the ids it resolved, as positions of the history
priorWrites(r) ==
  {k \in 1..req[r].writesBefore :
     {writes[k].subject1Id, writes[k].subject2Id} = {req[r].subject1Id, req[r].subject2Id}}

\* C9: a request that resolved to distinct ids (a, b), and whose cache query
\* did not fail, reads the summary of the latest upsert made for a and b in
\* either order: when that summary is non-empty the request returns it.
C9_OrderIndependentCache ==
  \A r \in Slots :
    (/\ isResolved(r)
     /\ req[r].subject1Id # req[r].subject2Id
     /\ req[r].pc # "lookup"
     /\ req[r].outcome.text # "Database query failed"
     /\ priorWrites(r) # {}
     /\ truthy(writes[MaxOf(priorWrites(r) \cup {1})].relationship_summary)) =>
      /\ req[r].cacheHit
      /\ req[r].outcome.text = writes[MaxOf(priorWrites(r))].relationship_summary

\* stored for (a, b), read for (b, a)
C9_Witness ==
  \E r \in Slots :
    /\ req[r].cacheHit
    /\ priorWrites(r) # {}
    /\ writes[MaxOf(priorWrites(r) \cup {1})].subject1Id = req[r].subject2Id
    /\ writes[MaxOf(priorWrites(r) \cup {1})].subject2Id = req[r].subject1Id
    /\ req[r].subject1Id # req[r].subject2Id

\* C10: every row of subject_relationships has subject_1 < subject_2.
C10_RowsStrictlyOrdered ==
  \A row \in db.subject_relationships : row.subject_1 < row.subject_2

\* ---- helpers of the cache claims ----
\* the upserts applied so far for the unordered pair {a, b}, as positions of
\* the history
writesFor(a, b) ==
  {k \in 1..Len(writes) : {writes[k].subject1Id, writes[k].subject2Id} = {a, b}}

\* the rows stored for the unordered pair {a, b}
rowsFor(a, b) ==
  {row \in db.subject_relationships : {row.subject_1, row.subject_2} = {a, b}}

\* C11: the relationship table holds at most one row per unordered pair of
\* subjects: every pair that was written has exactly one row, which carries
\* the summary and the time of the latest write for the pair (in either
\* argument order), and no other pair has a row.
C11_OneRowPerPair ==
  /\ \A row \in db.subject_relationships :
        /\ writesFor(row.subject_1, row.subject_2) # {}
        /\ rowsFor(row.subject_1, row.subject_2) = {row}
  /\ \A k \in 1..Len(writes) :
        LET last == writes[MaxOf(writesFor(writes[k].subject1Id, writes[k].subject2Id))]
        IN \E row \in db.subject_relationships :
             /\ rowsFor(writes[k].subject1Id, writes[k].subject2Id) = {row}
             /\ row.relationship_summary = last.relationship_summary
             /\ row.updated_at = last.at

\* the pair was written twice, once in each argument order, and its one row
\* carries the time of the second write
C11_Witness ==
  /\ Len(writes) = 2
  /\ writes[1].subject1Id = writes[2].subject2Id
  /\ writes[1].subject2Id = writes[2].subject1Id
  /\ writes[1].subject1Id # writes[1].subject2Id
  /\ \E row \in db.subject_relationships :
        /\ db.subject_relationships = {row}
        /\ row.updated_at = writes[2].at
        /\ row.updated_at # writes[1].at

\* C12: with two requests in flight, a write is never refused because the
\* pair already has a row (a failed write is a store error or the ordering
\* check), and whenever two requests for the same pair both missed the cache
\* and both wrote, the pair has exactly one row and it holds the summary of
\* the write applied last.
C12_LastWriterWins ==
  /\ \A r \in DOMAIN req :
        req[r].outcome.text = "Failed to update relationship" =>
          (issued(r, "storeError") \/ issued(r, "checkFailed"))
  /\ \A r1, r2 \in DOMAIN req :
        (/\ r1 # r2
         /\ issued(r1, "written") /\ issued(r2, "written")
         /\ {req[r1].subject1Id, req[r1].subject2Id} = {req[r2].subject1Id, req[r2].subject2Id}) =>
          LET a == req[r1].subject1Id
              b == req[r1].subject2Id
          IN \E row \in db.subject_relationships :
               /\ rowsFor(a, b) = {row}
               /\ row.relationship_summary = writes[MaxOf(writesFor(a, b))].relationship_summary

\* both requests started before either wrote, both missed, both wrote, with
\* different summaries; the row holds the second one
C12_Witness ==
  /\ Len(writes) = 2
  /\ \A r \in DOMAIN req :
        /\ req[r].writesBefore = 0
        /\ issued(r, "summarize")
        /\ issued(r, "written")
  /\ writes[1].relationship_summary = "s1"
  /\ writes[2].relationship_summary = "s2"
  /\ {writes[1].subject1Id, writes[1].subject2Id} = {writes[2].subject1Id, writes[2].subject2Id}
  /\ \E row \in db.subject_relationships :
        /\ db.subject_relationships = {row}
        /\ row.relationship_summary = "s2"

\* ---- helpers of the name resolution claims ----
\* the request has been through name resolution without a failed query
resolutionEnded(r) ==
  /\ req[r].opened = 1
  /\ req[r].pc \notin {"idle", "exact1", "exact2", "fuzzy"}
  /\ req[r].outcome.text \notin {"Failed to search for subject 1",
                                  "Failed to search for subject 2", "fuzzy query failed"}

notFound(r) == req[r].outcome.text = "No matching subject found"

lookupReturned == lookup.pc = "done" /\ lookup.error = Null

subjectOf(id) == (CHOOSE row \in db.subjects : row.id = id).subject

hasExact(name) == \E row \in db.subjects : equalsNoCase(row.subject, name)

\* text contains part as a substring, letters compared case-insensitively
contains(text, part) ==
  \E k \in 0..(Len(text) - Len(part)) :
     toLowerCase(SubSeq(text, k + 1, k + Len(part))) = toLowerCase(part)

\* tier 1: contains the whole name; tier 2: contains its first token only;
\* tier 3: neither
tier(subject, name) ==
  IF contains(subject, name) THEN 1
  ELSE IF contains(subject, firstToken(name)) THEN 2
  ELSE 3

candidates(name) == {row \in db.subjects : tier(row.subject, name) < 3}

\* the ids of the candidates no other candidate outranks under (tier, length)
topRanked(name) ==
  {row.id : row \in {x \in candidates(name) :
     \A y \in candidates(name) :
        \/ tier(x.subject, name) < tier(y.subject, name)
        \/ /\ tier(x.subject, name) = tier(y.subject, name)
           /\ Len(x.subject) <= Len(y.subject)}}

\* neither the exact nor the fuzzy query of the code finds a row for name
unresolved(name) ==
  exactQuery(db.subjects, name) = {NoRow} /\ fuzzyQuery(db.subjects, name) = {NoRow}

\* C13: a request with a name that cannot be resolved fails with the "no
\* matching subject" error, and the error names every unresolved side: the
\* one that is unresolved, or both when both are.
C13_EveryUnresolvedSideNamed ==
  \A r \in Slots :
    (/\ resolutionEnded(r)
     /\ (unresolved(req[r].subject1Name) \/ unresolved(req[r].subject2Name))) =>
      /\ notFound(r)
      /\ Range(req[r].outcome.names) =
           {name \in {req[r].subject1Name, req[r].subject2Name} : unresolved(name)}

\* C14: a name that some catalog entity equals case-insensitively resolves to
\* such an entity, in findSubjectIdByName and on each side of
\* findSubjectIdsByName, whatever shorter entities contain the name or its
\* first token; it is never reported as not found.
C14_ExactMatchWins ==
  /\ \A r \in Slots :
        /\ isResolved(r) =>
             /\ hasExact(req[r].subject1Name) =>
                  equalsNoCase(subjectOf(req[r].subject1Id), req[r].subject1Name)
             /\ hasExact(req[r].subject2Name) =>
                  equalsNoCase(subjectOf(req[r].subject2Id), req[r].subject2Name)
        /\ notFound(r) => \A k \in 1..Len(req[r].outcome.names) :
                             ~hasExact(req[r].outcome.names[k])
  /\ (lookupReturned /\ hasExact(lookup.subjectName)) =>
        /\ lookup.result # NoRow
        /\ equalsNoCase(subjectOf(lookup.result), lookup.subjectName)

\* catalog {"Sam", "Sam Hall"}: "Sam Hall" as subject_1 and "sam hall" alone
\* both resolve to the entity "Sam Hall"
C14_Witness ==
  /\ \E row \in db.subjects : row.subject = Sam
  /\ \E r \in Slots :
        /\ isResolved(r)
        /\ req[r].subject1Name = SamHall
        /\ subjectOf(req[r].subject1Id) = SamHall
  /\ lookupReturned
  /\ lookup.subjectName = samHallLower
  /\ lookup.result # NoRow
  /\ subjectOf(lookup.result) = SamHall

\* the id is what the ranking by (tier, length) gives for the name: a top
\* ranked candidate, or no match when there is no candidate
rankedResult(id, name) ==
  IF candidates(name) = {} THEN id = NoRow ELSE id \in topRanked(name)

\* C15: a name with no exact match resolves to a top candidate under (tier,
\* name length): entities containing the whole name before entities
\* containing only its first token, shorter names first within a tier; an
\* entity containing neither is never returned, and "no match" is the result
\* exactly when no entity contains either. For both resolvers.
C15_FuzzyRanking ==
  /\ \A r \in Slots :
        /\ isResolved(r) =>
             /\ req[r].subject1Row = NoRow =>
                  rankedResult(req[r].subject1Id, req[r].subject1Name)
             /\ req[r].subject2Row = NoRow =>
                  rankedResult(req[r].subject2Id, req[r].subject2Name)
        /\ notFound(r) => \A k \in 1..Len(req[r].outcome.names) :
                             candidates(req[r].outcome.names[k]) = {}
        /\ (resolutionEnded(r) /\ ~notFound(r)) => isResolved(r)
  /\ (lookupReturned /\ lookup.row = NoRow) =>
        rankedResult(lookup.result, lookup.subjectName)

\* C16: each id the two-name resolver returns is the id findSubjectIdByName
\* returns for that name alone on the same catalog, whether the two names hit
\* or miss the exact query; a name is reported as not found only if
\* findSubjectIdByName finds nothing for it.
C16_PerNameIndependent ==
  lookupReturned =>
    \A r \in Slots :
      /\ (isResolved(r) /\ req[r].subject1Name = lookup.subjectName) =>
            req[r].subject1Id = lookup.result
      /\ (isResolved(r) /\ req[r].subject2Name = lookup.subjectName) =>
            req[r].subject2Id = lookup.result
      /\ (notFound(r) /\ includes(req[r].outcome.names, lookup.subjectName)) =>
            lookup.result = NoRow
      /\ (/\ resolutionEnded(r)
          /\ lookup.subjectName \in {req[r].subject1Name, req[r].subject2Name}
          /\ lookup.result = NoRow) => notFound(r)

\* subject_1 missed the exact query and subject_2 missed it too; the second
\* id is the one findSubjectIdByName returns for subject_2 alone
C16_Witness ==
  /\ lookupReturned
  /\ lookup.result # NoRow
  /\ \E r \in Slots :
        /\ isResolved(r)
        /\ req[r].subject1Row = NoRow
        /\ req[r].subject2Row = NoRow
        /\ req[r].subject1Id # req[r].subject2Id
        /\ req[r].subject2Name = lookup.subjectName
        /\ req[r].subject2Id = lookup.result

\* ---- helpers of the evidence claims ----
\* the members of all clusters of an evidence clustering result, in order
RECURSIVE membersOf(_, _)
membersOf(clustersWithCentroids, k) ==
  IF k > Len(clustersWithCentroids) THEN <<>>
  ELSE clustersWithCentroids[k].sources \o membersOf(clustersWithCentroids, k + 1)

\* no two entries of the list of rows belong to the same group
distinctGroups(rows) ==
  \A j, k \in 1..Len(rows) : j # k => rows[j].group_id # rows[k].group_id

\* C17: the rows evidence clustering works on hold each group at most once
\* (one vector per group id), and so do the members of the clusters it
\* returns, also when several qualifying sources belong to one group.
C17_GroupsDeduplicated ==
  \A r \in Slots :
    clusteringReturned(r) =>
      /\ distinctGroups(req[r].rows)
      /\ distinctGroups(membersOf(req[r].clustersWithCentroids, 1))

\* the source is linked to a subject of that name (letters compared
\* case-insensitively)
mentions(source_id, name) ==
  \E sub \in db.subjects :
     /\ toLowerCase(sub.subject) = toLowerCase(name)
     /\ <<source_id, sub.id>> \in db.source_subjects

\* the group of the source has an embedding
hasEmbedding(source_id) ==
  \E src \in db.sources, g \in db.source_groups :
     src.id = source_id /\ g.id = src.group_id /\ g.vector.kind # "null"

\* C18: every row evidence clustering works on, and so every member of every
\* cluster it returns, has an embedding and is linked to all the subjects the
\* clustering was asked for; a source that mentions only some of them, or
\* whose group has no embedding, is not among the rows.
C18_AllSubjectsAndEmbedding ==
  \A r \in Slots :
    LET rows == req[r].rows
        members == membersOf(req[r].clustersWithCentroids, 1)
    IN /\ \A k \in 1..Len(rows) :
             /\ rows[k].vector.kind # "null"
             /\ hasEmbedding(rows[k].source_id)
             /\ \A j \in 1..Len(req[r].subjects) :
                   mentions(rows[k].source_id, req[r].subjects[j])
       /\ \A k \in 1..Len(members) : includes(rows, members[k])

\* clustering over two subjects returned a cluster; a source that mentions
\* one of the two and a source without embedding that mentions both exist
\* and are not among the rows
C18_Witness ==
  \E r \in Slots :
    /\ issued(r, "summarize")
    /\ Len(req[r].subjects) = 2
    /\ Len(membersOf(req[r].clustersWithCentroids, 1)) >= 2
    /\ \E src \in db.sources :
          /\ hasEmbedding(src.id)
          /\ mentions(src.id, req[r].subjects[1])
          /\ ~mentions(src.id, req[r].subjects[2])
          /\ \A k \in 1..Len(req[r].rows) : req[r].rows[k].source_id # src.id
    /\ \E src \in db.sources :
          /\ ~hasEmbedding(src.id)
          /\ mentions(src.id, req[r].subjects[1])
          /\ mentions(src.id, req[r].subjects[2])
          /\ \A k \in 1..Len(req[r].rows) : req[r].rows[k].source_id # src.id

\* the positions of the rows labelled with clusterId, in input order
RECURSIVE labelled(_, _, _)
labelled(clusterIds, clusterId, k) ==
  IF k > Len(clusterIds) THEN <<>>
  ELSE (IF clusterIds[k] = clusterId THEN <<k>> ELSE <<>>)
         \o labelled(clusterIds, clusterId, k + 1)

\* C19: evidence clustering returns one entry per label other than -1, made
\* of the rows with that label (so no noise row is in any entry), and the
\* entries come in ascending label order, whatever the order of the rows.
C19_EntriesInLabelOrder ==
  evidence.pc \in {"clustered", "empty", "sampled"} =>
    LET out == evidence.clustersWithCentroids
        labels == Range(evidence.clusterIds) \ {NOISE}
    IN /\ Len(out) = Cardinality(labels)
       /\ {out[k].clusterId : k \in 1..Len(out)} = labels
       /\ \A k \in 1..Len(out) :
             LET positions == labelled(evidence.clusterIds, out[k].clusterId, 1)
             IN out[k].sources = [m \in 1..Len(positions) |-> evidence.rows[positions[m]]]
       /\ \A j, k \in 1..Len(out) : j < k => out[j].clusterId < out[k].clusterId

\* the texts of the first min(5, size) members of every cluster
firstMembers(out) ==
  UNION {{out[k].sources[m].source_text : m \in 1..Min(SampleSize, Len(out[k].sources))} :
           k \in 1..Len(out)}

\* the position of a text in the sample
positionOf(sample, text) == CHOOSE p \in 1..Len(sample) : sample[p] = text

\* C20: the sampled texts are, for every returned cluster, the texts of its
\* first min(5, size) members, once each and in member order, and member
\* order is the order of the rows; the text of a noise row and the text of a
\* sixth or later member are not in the sample.
C20_FirstFivePerCluster ==
  evidence.pc = "sampled" =>
    LET out == evidence.clustersWithCentroids
        sample == evidence.sampledSources
    IN /\ Range(sample) = firstMembers(out)
       /\ Len(sample) = Cardinality(firstMembers(out))
       /\ \A k \in 1..Len(out) :
             LET members == out[k].sources
             IN /\ \A m, n \in 1..Len(members) :
                     m < n => members[m].source_id < members[n].source_id
                /\ \A m, n \in 1..Min(SampleSize, Len(members)) :
                     m < n => positionOf(sample, members[m].source_text)
                                < positionOf(sample, members[n].source_text)
                /\ \A m \in (SampleSize + 1)..Len(members) :
                     ~includes(sample, members[m].source_text)
       /\ \A p \in 1..Len(evidence.rows) :
             evidence.clusterIds[p] = NOISE => ~includes(sample, evidence.rows[p].source_text)

\* a cluster of more than five members next to a noise row
C20_Witness ==
  /\ evidence.pc = "sampled"
  /\ \E k \in 1..Len(evidence.clustersWithCentroids) :
        Len(evidence.clustersWithCentroids[k].sources) > SampleSize
  /\ \E p \in 1..Len(evidence.rows) : evidence.clusterIds[p] = NOISE

\* ---- helpers of the dbscanClustering claims ----
\* a core point: at least minPoints other points within eps
isCore(p) ==
  Len(getNeighbors(dbscan.embeddings, p, dbscan.eps)) >= dbscan.minPoints

\* p and q are different points within eps of each other
adjacent(p, q) == includes(getNeighbors(dbscan.embeddings, p, dbscan.eps), q)

Points == 1..Len(dbscan.embeddings)

\* C21: dbscanClustering returns labels only for valid parameters: a call
\* with minPoints <= 0 or with eps < 0 does not return.
C21_InvalidParameterRejected ==
  dbscan.pc = "done" => (dbscan.minPoints > 0 /\ dbscan.eps >= 0)

\* the cluster ids carried by some point
labelsUsed == Range(dbscan.clusters) \ {NOISE}

\* the lowest index of a core point labelled c
lowestCore(c) ==
  CHOOSE p \in Points :
    /\ dbscan.clusters[p] = c /\ isCore(p)
    /\ \A q \in Points : (dbscan.clusters[q] = c /\ isCore(q)) => p <= q

\* C22: dbscanClustering returns one label per input vector (none for no
\* input), the labels other than -1 are exactly 0..k-1 for the number k of
\* clusters, every cluster has a core point, and the lowest-index core point
\* of cluster c comes before the lowest-index core point of cluster c + 1.
C22_LabelsInDiscoveryOrder ==
  dbscan.pc = "done" =>
    /\ Len(dbscan.clusters) = Len(dbscan.embeddings)
    /\ labelsUsed = 0..(Cardinality(labelsUsed) - 1)
    /\ \A c \in labelsUsed : \E p \in Points : dbscan.clusters[p] = c /\ isCore(p)
    /\ \A c \in labelsUsed :
          (c + 1) \in labelsUsed => lowestCore(c) < lowestCore(c + 1)

\* valid parameters, four points, two clusters interleaved in the input
C22_Witness ==
  /\ dbscan.pc = "done"
  /\ dbscan.minPoints > 0
  /\ dbscan.eps >= 0
  /\ Len(dbscan.clusters) = 4
  /\ labelsUsed = {0, 1}
  /\ dbscan.clusters[1] = 0
  /\ dbscan.clusters[2] = 1
  /\ dbscan.clusters[3] = 0

\* C23: in the labels dbscanClustering returns, a point that is not a core
\* point and is not within eps of any core point is labelled -1.
C23_NoiseStaysNoise ==
  dbscan.pc = "done" =>
    \A p \in Points :
      (~isCore(p) /\ ~\E q \in Points : adjacent(p, q) /\ isCore(q)) =>
        dbscan.clusters[p] = NOISE

\* a point with a neighbour, but fewer than minPoints, and no core point
\* near it, in a result that has a cluster or further noise
C23_Witness ==
  /\ dbscan.pc = "done"
  /\ dbscan.eps >= 0
  /\ Len(dbscan.embeddings) = 4
  /\ dbscan.clusters[1] = NOISE
  /\ ~isCore(1)
  /\ \E q \in Points : adjacent(1, q)
  /\ ~\E q \in Points : adjacent(1, q) /\ isCore(q)


\* ------------------------------------------------------------------------
\* sqlite_query: the row limit
\* ------------------------------------------------------------------------
effectiveLimit(params) ==
  IF hasLimit(params) /\ params.limit \in 1..MaxLimit THEN params.limit ELSE DefaultLimit

\* C24: a SELECT, WITH, EXPLAIN or PRAGMA statement that sqlite_query answers
\* returns at most the effective limit of rows: params.limit when it is
\* within 1..1000, otherwise 100
C24_RowsWithinLimit ==
  (query.pc = "done" /\ query.outcome.kind = "ok"
     /\ ~startsWithDot(lowerQuery(query.query)))
    => Len(query.rows) <= effectiveLimit(query.params)


\* ------------------------------------------------------------------------
\* dbscanClustering: the expansion of one cluster
\* ------------------------------------------------------------------------
noDuplicates(s) == \A a, b \in 1..Len(s) : a # b => s[a] # s[b]

queueBounded ==
  dbscan.pc = "expand" =>
    /\ noDuplicates(dbscan.neighborQueue)
    /\ Len(dbscan.neighborQueue) <= Len(dbscan.embeddings)

returned == dbscan.pc \in {"done", "thrown"}

\* C25: every call of dbscanClustering ends (it returns or throws), and
\* while a cluster is expanded no index is in the queue twice, so the queue
\* is never longer than the number of points
C25_ExpansionTerminates == []queueBounded /\ <>returned

\* a queue as long as the input, the seed itself pushed by a neighbour, with
\* a later neighbour list already merged into it
C25_Witness ==
  /\ dbscan.pc = "expand"
  /\ dbscan.j > 2
  /\ Len(dbscan.neighborQueue) = Len(dbscan.embeddings)
  /\ includes(dbscan.neighborQueue, dbscan.i)


\* ------------------------------------------------------------------------
\* dbscanClustering: border points
\* ------------------------------------------------------------------------
nearCore(p) == \E q \in Points : adjacent(p, q) /\ isCore(q)

\* C26: a point with fewer than minPoints neighbours never starts a cluster,
\* and when a core point is within eps of it, it ends with the label of a
\* core point within eps of it, not with -1
C26_BorderAbsorbed ==
  /\ dbscan.pc = "expand" => isCore(dbscan.i)
  /\ dbscan.pc = "done" =>
       \A p \in Points :
         (~isCore(p) /\ nearCore(p)) =>
           /\ dbscan.clusters[p] # NOISE
           /\ \E q \in Points :
                adjacent(p, q) /\ isCore(q) /\ dbscan.clusters[q] = dbscan.clusters[p]

\* the first point has too few neighbours and was passed over by the outer
\* loop, the core point next to it comes later in the input
C26_Witness ==
  /\ dbscan.pc = "done"
  /\ dbscan.minPoints >= 2
  /\ Len(dbscan.embeddings) >= 3
  /\ ~isCore(1)
  /\ nearCore(1)
  /\ dbscan.clusters[1] # NOISE
  /\ \E p \in Points : dbscan.clusters[p] = NOISE


\* ------------------------------------------------------------------------
\* dbscanClustering: core points
\* ------------------------------------------------------------------------
\* C28: two core points within eps of each other end with the same label,
\* and it is not -1, in whatever order the points are given
C28_AdjacentCoresShareLabel ==
  dbscan.pc = "done" =>
    \A p, q \in Points :
      (isCore(p) /\ isCore(q) /\ adjacent(p, q)) =>
        /\ dbscan.clusters[p] # NOISE
        /\ dbscan.clusters[p] = dbscan.clusters[q]

\* a chain of core points: the seed and the last point are further apart
\* than eps and joined through the point between them, which comes last in
\* the input
C28_Witness ==
  /\ dbscan.pc = "done"
  /\ dbscan.minPoints >= 1
  /\ \E p, q, r \in Points :
       /\ p < q /\ q < r
       /\ isCore(p) /\ isCore(q) /\ isCore(r)
       /\ adjacent(p, r) /\ adjacent(r, q) /\ ~adjacent(p, q)
       /\ dbscan.clusters[p] = dbscan.clusters[q]


\* ------------------------------------------------------------------------
\* find_subject_relationship: the order of the pipeline's operations
\* ------------------------------------------------------------------------
ResolutionFailures ==
  {"Failed to search for subject 1", "Failed to search for subject 2",
   "fuzzy query failed", "No matching subject found"}

before(trace, first, then) ==
  \A k \in 1..Len(trace) :
    trace[k] = then => \E m \in 1..(k - 1) : trace[m] = first

\* C27: a request whose name resolution failed (no match, or an error of
\* the subjects queries) has ended with an error and has issued no cache
\* lookup, no evidence query, no summarizer call and no write; the cache is
\* looked up only with both names resolved; a write is preceded by a cache
\* miss, and the summarizer is called only after a cache miss whose evidence
\* gave at least one cluster
C27_StopsAtFirstFailure ==
  \A r \in Slots :
    /\ req[r].outcome.text \in ResolutionFailures =>
         /\ req[r].pc = "done"
         /\ req[r].outcome.kind = "error"
         /\ req[r].trace = <<>>
         /\ Len(writes) = req[r].writesBefore
         /\ db.subject_relationships = req[r].cacheBefore
    /\ req[r].trace # <<>> =>
         /\ req[r].trace[1] = "lookup"
         /\ req[r].subject1Id # NoRow
         /\ req[r].subject2Id # NoRow
    /\ before(req[r].trace, "lookup", "retrieve")
    /\ before(req[r].trace, "retrieve", "upsert")
    /\ before(req[r].trace, "upsert", "written")
    /\ before(req[r].trace, "retrieve", "summarize")
    /\ includes(req[r].trace, "summarize") => Len(req[r].clustersWithCentroids) > 0
    /\ Len(writes) > req[r].writesBefore => includes(req[r].trace, "retrieve")

\* after a request that missed the cache and wrote a summary, a request for
\* a name that matches no subject has ended without any operation
C27_Witness ==
  /\ started = 2
  /\ Len(writes) = 1
  /\ truthy(writes[1].relationship_summary)
  /\ req[1].pc = "done"
  /\ req[1].outcome.text = "No matching subject found"
  /\ req[1].trace = <<>>


\* ------------------------------------------------------------------------
\* The database connections of the three tools
\* ------------------------------------------------------------------------
\* C29: when a tool execution has delivered its result or its error, it has
\* closed every connection it opened, once: in find_subject_relationship,
\* in find_sources_by_subject and in sqlite_query, and no connection is
\* closed that was not opened
C29_ConnectionClosedOnce ==
  /\ \A r \in Slots :
       /\ req[r].closed <= req[r].opened
       /\ req[r].pc = "done" => req[r].closed = req[r].opened
  /\ findSources.pc # "idle" => findSources.closed <= findSources.opened
  /\ findSources.pc = "done" => findSources.closed = findSources.opened
  /\ query.pc # "idle" => query.closed <= query.opened
  /\ query.pc = "done" => query.closed = query.opened


\* ------------------------------------------------------------------------
\* find_subject_relationship: what is cached
\* ------------------------------------------------------------------------
\* the non-empty texts the summarizer produces
SummarizerTexts == {result.text : result \in {g \in GeminiResults : g.ok /\ g.text # ""}}

\* C30: every non-empty summary written to the cache, and every non-empty
\* summary stored in it, is a text the summarizer produced; after a
\* summarizer success with empty text no non-empty summary is stored
C30_OnlySummarizerTextCached ==
  /\ \A k \in 1..Len(writes) :
       truthy(writes[k].relationship_summary) =>
         writes[k].relationship_summary \in SummarizerTexts
  /\ \A row \in db.subject_relationships :
       truthy(row.relationship_summary) => row.relationship_summary \in SummarizerTexts

====
